---- MODULE Spec2Model ----
(***************************************************************************)
(* Payment-event aggregators: BillingProcessor, FraudDetector,             *)
(* AnalyticsProcessor and the TransactionHandler that produces their       *)
(* events through Logger.                                                  *)
(*                                                                         *)
(* Each aggregator method is a pure operator on the aggregator's maps; an  *)
(* action applies it to one input.  JavaScript Maps are functions with a   *)
(* finite domain, absent keys being outside the domain.  Date.now() is the *)
(* variable now (milliseconds), advanced by Tick and NextDay.  The Logger  *)
(* output kept is BillingProcessor's (billingLog), FraudDetector's         *)
(* (fraudLog) and TransactionHandler's (console).                          *)
(***************************************************************************)
EXTENDS Integers, Sequences, FiniteSets, TLC

VARIABLES
  now,                \* the wall clock read by Date.now() / new Date()
  billingRecords,     \* BillingProcessor.billingRecords
  customerBilling,    \* BillingProcessor.customerBilling
  billingLog,         \* the lines BillingProcessor has logged
  fraudAlerts,        \* FraudDetector.fraudAlerts
  customerProfiles,   \* FraudDetector.customerProfiles
  transactionHistory, \* FraudDetector.transactionHistory
  fraudLog,           \* the lines FraudDetector has logged
  transactionAnalytics, \* AnalyticsProcessor.transactionAnalytics
  customerAnalytics,  \* AnalyticsProcessor.customerAnalytics
  attempted,          \* the attempt events AnalyticsProcessor was given
  console,            \* what the TransactionHandler's Logger has written
  returned,           \* what each processTransaction call gave its caller
  delivered,          \* console lines already handed to BillingProcessor
  calls,              \* the calls made: in flight at an await, returned, or
                      \* listed per aggregator
  served              \* number of handler calls made so far

billingVars == <<billingRecords, customerBilling, billingLog>>
fraudVars == <<fraudAlerts, customerProfiles, transactionHistory, fraudLog>>
analyticsVars == <<transactionAnalytics, customerAnalytics, attempted>>
producerVars == <<console, returned, delivered>>
vars == <<now, billingVars, fraudVars, analyticsVars, producerVars, calls,
          served>>

(***************************************************************************)
(* Bounds of the model.                                                    *)
(***************************************************************************)
MaxNow == 1           \* the clock runs over 0..MaxNow
MaxCalls == 4         \* handler calls made in one behaviour
MaxBilled == 3        \* processTransactionSuccess calls run one after another
MaxTransactions == 2  \* processTransaction calls made in one behaviour
MaxAttempts == 3      \* analyzeTransaction calls made in one behaviour
MaxBurst == 7         \* analyzeTransaction calls made in one burst
MaxPattern == 4       \* analyzeTransaction calls of the pattern inputs
MaxPair == 3          \* processTransactionSuccess calls of the pair inputs
MaxTotals == 4        \* attempts recorded before the totals are compared
MaxDay == 1           \* the calendar runs over days 0..MaxDay
MaxRisk == 12         \* attempts recorded before a risk tier is computed
MaxInFlight == 2      \* calls of one aggregator suspended at the same time
MaxTrendDay == 15     \* the trend calendar runs over days -16..MaxTrendDay

Methods == {"card", "bank_transfer", "wallet"}
Customers == {"c1", "c2"}
TxIds == {"tx1", "tx2", "tx3", "tx4"}
BillingAmounts == {4000, 3000, 3500}

(***************************************************************************)
(* Map helpers (Map.set, Map.delete, Map.get with a default).              *)
(***************************************************************************)
\* Milliseconds in an hour and in a day.
OneHour == 60 * 60 * 1000
OneDay == 24 * OneHour

EmptyMap == << >>

Put(m, k, v) == [x \in (DOMAIN m) \cup {k} |-> IF x = k THEN v ELSE m[x]]

Del(m, k) == [x \in (DOMAIN m) \ {k} |-> m[x]]

\* The value read from a property the object does not have.
Undefined == "undefined"

\* logData.event, for a log object with or without that property.
EventOf(logData) ==
  IF "event" \in DOMAIN logData THEN logData.event ELSE Undefined

(***************************************************************************)
(* BillingProcessor                                                        *)
(***************************************************************************)
InvoiceThreshold == 10000

NoInvoice == << >>

\* `inv_${Date.now()}_${customerId}`: one string per (clock, customer).
InvoiceId(t, customerId) == <<t, customerId>>

BillingState == [billingRecords |-> billingRecords,
                 customerBilling |-> customerBilling,
                 billingLog |-> billingLog]

\* logData[key], for a log object with or without that property.
FieldOf(logData, key) ==
  IF key \in DOMAIN logData THEN logData[key] ELSE Undefined

\* The object as JSON.stringify writes it: the properties whose value is
\* undefined are left out.
Present(logData, keys) == [k \in keys \cap DOMAIN logData |-> logData[k]]

\* NaN is what `+=` leaves in a total when the amount it adds is undefined.
\* It stands apart from every amount: the amounts of the model are >= 0.
NaN == -1

\* The number a numeric property contributes to a sum.
NumberOf(logData, key) ==
  IF key \in DOMAIN logData THEN logData[key] ELSE NaN

\* a + b on numbers: NaN if either is NaN.
Plus(a, b) == IF a = NaN \/ b = NaN THEN NaN ELSE a + b

\* a >= b on numbers: false if a is NaN.
AtLeast(a, b) == a # NaN /\ a >= b

\* record.customerId of a stored billing record.
CustomerOf(record) == FieldOf(record, "customerId")

updateCustomerBilling(cb, customerId, amount, processingFee, t) ==
  LET existing == IF customerId \in DOMAIN cb
                  THEN cb[customerId]
                  ELSE [customerId |-> customerId,
                        totalTransactions |-> 0,
                        totalAmount |-> 0,
                        totalFees |-> 0,
                        lastBillingDate |-> t]
  IN Put(cb, customerId,
         [existing EXCEPT !.totalTransactions = @ + 1,
                          !.totalAmount = Plus(@, amount),
                          !.totalFees = Plus(@, processingFee),
                          !.lastBillingDate = t])

\* The mutant of maybeGenerateInvoice: the threshold compared with > .
maybeGenerateInvoiceStrict(B, customerId, t) ==
  IF customerId \notin DOMAIN B.customerBilling THEN B
  ELSE IF /\ B.customerBilling[customerId].totalAmount # NaN
          /\ B.customerBilling[customerId].totalAmount > InvoiceThreshold
  THEN [billingRecords |->
          [x \in DOMAIN B.billingRecords |->
             IF /\ CustomerOf(B.billingRecords[x]) = customerId
                /\ B.billingRecords[x].status = "pending"
             THEN [B.billingRecords[x] EXCEPT
                     !.status = "processed",
                     !.invoiceId = InvoiceId(t, customerId)]
             ELSE B.billingRecords[x]],
        customerBilling |-> Del(B.customerBilling, customerId),
        billingLog |->
          Append(B.billingLog,
                 [level |-> "info", message |-> "Invoice generated",
                  invoiceId |-> InvoiceId(t, customerId),
                  customerId |-> customerId,
                  totalAmount |-> B.customerBilling[customerId].totalAmount,
                  totalTransactions |->
                    B.customerBilling[customerId].totalTransactions])]
  ELSE B

\* Mutant of maybeGenerateInvoice: the records are marked processed and
\* get no invoiceId.
maybeGenerateInvoiceUnnumbered(B, customerId, t) ==
  IF customerId \notin DOMAIN B.customerBilling THEN B
  ELSE IF AtLeast(B.customerBilling[customerId].totalAmount, InvoiceThreshold)
  THEN [billingRecords |->
          [x \in DOMAIN B.billingRecords |->
             IF /\ CustomerOf(B.billingRecords[x]) = customerId
                /\ B.billingRecords[x].status = "pending"
             THEN [B.billingRecords[x] EXCEPT !.status = "processed"]
             ELSE B.billingRecords[x]],
        customerBilling |-> Del(B.customerBilling, customerId),
        billingLog |-> B.billingLog]
  ELSE B

maybeGenerateInvoice(B, customerId, t) ==
  IF customerId \notin DOMAIN B.customerBilling THEN B
  ELSE IF AtLeast(B.customerBilling[customerId].totalAmount, InvoiceThreshold)
  THEN [billingRecords |->
          [x \in DOMAIN B.billingRecords |->
             IF /\ CustomerOf(B.billingRecords[x]) = customerId
                /\ B.billingRecords[x].status = "pending"
             THEN [B.billingRecords[x] EXCEPT
                     !.status = "processed",
                     !.invoiceId = InvoiceId(t, customerId)]
             ELSE B.billingRecords[x]],
        customerBilling |-> Del(B.customerBilling, customerId),
        billingLog |->
          Append(B.billingLog,
                 [level |-> "info", message |-> "Invoice generated",
                  invoiceId |-> InvoiceId(t, customerId),
                  customerId |-> customerId,
                  totalAmount |-> B.customerBilling[customerId].totalAmount,
                  totalTransactions |->
                    B.customerBilling[customerId].totalTransactions])]
  ELSE B

\* processTransactionSuccess up to its first suspension: the discriminant
\* test, billingRecords.set and the body of updateCustomerBilling, which has
\* no await of its own and so runs within the caller's turn.
storeBillingRecord(B, logData, t) ==
  [billingRecords |->
     Put(B.billingRecords, FieldOf(logData, "transactionId"),
         Present(logData, {"transactionId", "customerId", "amount",
                           "currency", "processingFee"})
         @@ [billingDate |-> t,
             status |-> "pending",
             invoiceId |-> NoInvoice]),
   customerBilling |->
     updateCustomerBilling(B.customerBilling, FieldOf(logData, "customerId"),
                           NumberOf(logData, "amount"),
                           NumberOf(logData, "processingFee"), t),
   billingLog |-> B.billingLog]

\* The last statement of the try block.
logBillingRecordCreated(B, logData) ==
  [B EXCEPT !.billingLog =
     Append(@, Present(logData, {"transactionId", "customerId", "amount"})
               @@ [level |-> "info", message |-> "Billing record created"])]

SuccessDiscriminant == "SIDE_EFFECT: transaction_success"

\* The mutant of processTransactionSuccess: the discriminant is not tested.
processTransactionSuccessUngated(B, logData, t) ==
  logBillingRecordCreated(
    maybeGenerateInvoice(storeBillingRecord(B, logData, t),
                         FieldOf(logData, "customerId"), t),
    logData)

\* The whole of processTransactionSuccess, run without interleaving.
processTransactionSuccess(B, logData, t) ==
  IF EventOf(logData) # SuccessDiscriminant THEN B
  ELSE logBillingRecordCreated(
         maybeGenerateInvoice(storeBillingRecord(B, logData, t),
                              FieldOf(logData, "customerId"), t),
         logData)

getBillingRecord(B, transactionId) ==
  IF transactionId \in DOMAIN B.billingRecords
  THEN B.billingRecords[transactionId] ELSE Undefined

getAllPendingBilling(B) ==
  {x \in DOMAIN B.billingRecords : B.billingRecords[x].status = "pending"}

(***************************************************************************)
(* Inputs of the billing specification: success events as the unit tests   *)
(* build them, and one event of another kind.                              *)
(***************************************************************************)
FeeOf(amount) == IF amount = 4000 THEN 146 ELSE IF amount = 3000 THEN 117 ELSE 132

SuccessEvent(x, c, a) ==
  [event |-> SuccessDiscriminant, transactionId |-> x, customerId |-> c,
   amount |-> a, currency |-> "USD", paymentMethod |-> "card",
   processingFee |-> FeeOf(a)]

\* Customer c1 sends every amount under three ids; customer c2 sends 4000
\* under two ids, one of them an id c1 uses too.
SuccessEvents ==
  {SuccessEvent(x, "c1", a) : x \in {"tx1", "tx2", "tx3"}, a \in BillingAmounts}
  \cup {SuccessEvent(x, "c2", 4000) : x \in {"tx3", "tx4"}}

OtherEvents ==
  {[event |-> "some_other_event", transactionId |-> "tx1",
    customerId |-> "c1", amount |-> 5000]}

\* The aggregators and the producer as their constructors leave them.
InitStores ==
  /\ billingRecords = EmptyMap
  /\ customerBilling = EmptyMap
  /\ billingLog = << >>
  /\ fraudAlerts = EmptyMap
  /\ customerProfiles = EmptyMap
  /\ transactionHistory = EmptyMap
  /\ fraudLog = << >>
  /\ transactionAnalytics = EmptyMap
  /\ customerAnalytics = EmptyMap
  /\ attempted = << >>
  /\ console = << >>
  /\ returned = EmptyMap
  /\ delivered = {}
  /\ calls = EmptyMap
  /\ served = 0

InitCommon == now = 0 /\ InitStores

Tick ==
  /\ now % OneDay < MaxNow
  /\ now' = now + 1
  /\ UNCHANGED <<billingVars, fraudVars, analyticsVars, producerVars, calls,
                 served>>

BillingSuccess(logData) ==
  LET B == processTransactionSuccess(BillingState, logData, now)
  IN /\ served < MaxBilled
     /\ served' = served + 1
     /\ billingRecords' = B.billingRecords
     /\ customerBilling' = B.customerBilling
     /\ billingLog' = B.billingLog
     /\ UNCHANGED <<now, fraudVars, analyticsVars, producerVars, calls>>

HandleSuccess == \E e \in SuccessEvents : BillingSuccess(e)

HandleOther == \E e \in OtherEvents : BillingSuccess(e)

NextBilling == Tick \/ HandleSuccess \/ HandleOther

SpecBilling == InitCommon /\ [][NextBilling]_vars

(***************************************************************************)
(* Billing claims                                                          *)
(***************************************************************************)
PendingOf(recs, c) ==
  {x \in DOMAIN recs : recs[x].customerId = c /\ recs[x].status = "pending"}

AccumulatedAmount(cb, c) == IF c \in DOMAIN cb THEN cb[c].totalAmount ELSE 0

Replays(e, recs) ==
  /\ e.transactionId \in DOMAIN recs
  /\ recs[e.transactionId].customerId = e.customerId
  /\ recs[e.transactionId].amount = e.amount
  /\ recs[e.transactionId].processingFee = e.processingFee

Totals(cb) ==
  [c \in DOMAIN cb |-> <<cb[c].totalTransactions, cb[c].totalAmount,
                          cb[c].totalFees>>]

RecordFacts(recs) ==
  [x \in DOMAIN recs |-> <<recs[x].customerId, recs[x].amount,
                            recs[x].processingFee, recs[x].status,
                            recs[x].invoiceId>>]

\* C2: handling a success event identical to one already handled leaves the
\* accumulators (totalTransactions, totalAmount, totalFees) and the billing
\* records as the first delivery left them.
C2_ReplayIsIdempotent ==
  [][\A e \in SuccessEvents :
       (BillingSuccess(e) /\ Replays(e, billingRecords)) =>
         /\ Totals(customerBilling') = Totals(customerBilling)
         /\ RecordFacts(billingRecords') = RecordFacts(billingRecords)
    ]_vars

(***************************************************************************)
(* Success events that lack required fields.  The first is the event of    *)
(* the unit test 'should handle malformed log data gracefully'; the second *)
(* names its customer but carries no amount, currency or fee.              *)
(***************************************************************************)
MalformedEvents ==
  {[event |-> SuccessDiscriminant, transactionId |-> "tx1"],
   [event |-> SuccessDiscriminant, transactionId |-> "tx2",
    customerId |-> "c1"]}

WellFormedEvents ==
  {SuccessEvent("tx3", "c1", 4000), SuccessEvent("tx4", "c1", 3000),
   SuccessEvent("tx1", "c1", 3500)}

HandleMalformed == \E e \in MalformedEvents : BillingSuccess(e)

HandleWellFormed == \E e \in WellFormedEvents : BillingSuccess(e)

NextBillingMalformed == Tick \/ HandleMalformed \/ HandleWellFormed

SpecBillingMalformed == InitCommon /\ [][NextBillingMalformed]_vars

\* The lines a step added to BillingProcessor's log.
NewBillingLines == SubSeq(billingLog', Len(billingLog) + 1, Len(billingLog'))

\* C13: handling a success event that lacks required fields logs the error
\* 'Failed to process billing for transaction', and the accumulator totals
\* stay as they were: nothing is folded into them for the missing numbers.
C13_MalformedSuccessIsReported ==
  [][\A e \in MalformedEvents :
       BillingSuccess(e) =>
         /\ \E i \in 1..Len(NewBillingLines) :
              /\ NewBillingLines[i].level = "error"
              /\ NewBillingLines[i].message =
                   "Failed to process billing for transaction"
         /\ Totals(customerBilling') = Totals(customerBilling)
    ]_vars

(***************************************************************************)
(* The five completed transactions of one customer that the integration    *)
(* test 'should handle high-volume transaction processing' makes: amounts  *)
(* 2000 + 500 i, each success event handled once, in any order.            *)
(***************************************************************************)
FiveAmounts == [i \in 0..4 |-> 2000 + i * 500]

FiveEvents ==
  {SuccessEvent(<<"tx", i>>, "c1", FiveAmounts[i]) : i \in DOMAIN FiveAmounts}

BillingOnce(logData) ==
  LET B == processTransactionSuccess(BillingState, logData, now)
  IN /\ logData.transactionId \notin DOMAIN billingRecords
     /\ served' = served + 1
     /\ billingRecords' = B.billingRecords
     /\ customerBilling' = B.customerBilling
     /\ billingLog' = B.billingLog
     /\ UNCHANGED <<now, fraudVars, analyticsVars, producerVars, calls>>

HandleFive == \E e \in FiveEvents : BillingOnce(e)

NextFive == Tick \/ HandleFive

SpecFive == InitCommon /\ [][NextFive]_vars

\* C17: once the success events of the five transactions have all been
\* handled, getAllPendingBilling holds five records of the customer.
C17_FiveSuccessesLeaveFivePending ==
  (\A e \in FiveEvents : e.transactionId \in DOMAIN billingRecords) =>
    Cardinality({x \in getAllPendingBilling(BillingState) :
                   CustomerOf(billingRecords[x]) = "c1"}) = 5

(***************************************************************************)
(* BillingProcessor with calls in flight at once.  A call runs from one    *)
(* await to the next without interruption; between two awaits of one call  *)
(* the turns of other calls may run.  calls keeps, for each call, its      *)
(* event, where it stands, the state it started from and the calls that    *)
(* were in flight then.                                                    *)
(***************************************************************************)
InFlight(cs) == {k \in DOMAIN cs : cs[k].pc # "done"}

\* One amount per transactionId, all of customer c1.
InterleavedEvents ==
  {SuccessEvent("tx1", "c1", 4000), SuccessEvent("tx2", "c1", 3000),
   SuccessEvent("tx3", "c1", 3500), SuccessEvent("tx4", "c1", 3000)}

\* The call up to `await this.updateCustomerBilling(...)`.
BillingStart(logData) ==
  LET accepted == EventOf(logData) = SuccessDiscriminant
      B == IF accepted THEN storeBillingRecord(BillingState, logData, now)
           ELSE BillingState
  IN /\ served < MaxCalls
     /\ Cardinality(InFlight(calls)) < MaxInFlight
     /\ served' = served + 1
     /\ billingRecords' = B.billingRecords
     /\ customerBilling' = B.customerBilling
     /\ billingLog' = B.billingLog
     /\ calls' = Put(calls, served + 1,
                     [logData |-> logData,
                      pc |-> IF accepted THEN "invoice" ELSE "done",
                      base |-> BillingState,
                      since |-> now,
                      overlaps |-> InFlight(calls)])
     /\ UNCHANGED <<now, fraudVars, analyticsVars, producerVars>>

\* From there to `await this.maybeGenerateInvoice(...)`.
BillingInvoice(k) ==
  LET B == maybeGenerateInvoice(BillingState, calls[k].logData.customerId, now)
  IN /\ calls[k].pc = "invoice"
     /\ billingRecords' = B.billingRecords
     /\ customerBilling' = B.customerBilling
     /\ billingLog' = B.billingLog
     /\ calls' = [calls EXCEPT ![k].pc = "log"]
     /\ UNCHANGED <<now, served, fraudVars, analyticsVars, producerVars>>

\* The rest: 'Billing record created' is logged and the call returns.
BillingReturn(k) ==
  LET B == logBillingRecordCreated(BillingState, calls[k].logData)
  IN /\ calls[k].pc = "log"
     /\ calls' = [calls EXCEPT ![k].pc = "done"]
     /\ billingLog' = B.billingLog
     /\ UNCHANGED <<now, served, billingRecords, customerBilling, fraudVars,
                    analyticsVars, producerVars>>

StartSuccess == \E e \in InterleavedEvents : BillingStart(e)

StartOther == \E e \in OtherEvents : BillingStart(e)

Invoice == \E k \in DOMAIN calls : BillingInvoice(k)

Return == \E k \in DOMAIN calls : BillingReturn(k)

NextBillingInterleaved ==
  Tick \/ StartSuccess \/ StartOther \/ Invoice \/ Return

SpecBillingInterleaved == InitCommon /\ [][NextBillingInterleaved]_vars

\* Two success events of one customer that reach the invoicing threshold
\* together, handled with calls in flight at once and handled again.
PairEvents ==
  {SuccessEvent("tx1", "c1", 6000), SuccessEvent("tx2", "c1", 4000)}

StartPair == served < MaxPair /\ \E e \in PairEvents : BillingStart(e)

NextBillingPair == Tick \/ StartPair \/ Invoice \/ Return

SpecBillingPair == InitCommon /\ [][NextBillingPair]_vars

\* C35: a billing record has status 'processed' exactly when it has an
\* invoiceId, and its status is never 'failed'; the record a success event
\* creates is 'pending' and has no invoiceId.
C35_ProcessedIffInvoiced ==
  /\ [](\A x \in DOMAIN billingRecords :
          /\ billingRecords[x].status \in {"pending", "processed"}
          /\ billingRecords[x].status = "processed"
               <=> billingRecords[x].invoiceId # NoInvoice)
  /\ [][\A e \in PairEvents :
          BillingStart(e) =>
            /\ billingRecords'[e.transactionId].status = "pending"
            /\ billingRecords'[e.transactionId].invoiceId = NoInvoice
       ]_vars

\* C35 witness: one record is processed under an invoiceId while another,
\* created since, is pending without one.
C35_Witness ==
  \E x, y \in DOMAIN billingRecords :
    /\ billingRecords[x].status = "processed"
    /\ billingRecords[x].invoiceId = InvoiceId(now, "c1")
    /\ billingRecords[y].status = "pending"
    /\ billingRecords[y].invoiceId = NoInvoice

\* C37: a billing record that is processed under an invoiceId keeps its
\* status, its invoiceId and its amount through every later step of
\* BillingProcessor, the handling of further and of repeated success events
\* included.
C37_ProcessedIsFinal ==
  [][\A x \in DOMAIN billingRecords :
       billingRecords[x].status = "processed" =>
         /\ x \in DOMAIN billingRecords'
         /\ billingRecords'[x].status = "processed"
         /\ billingRecords'[x].invoiceId = billingRecords[x].invoiceId
         /\ billingRecords'[x].amount = billingRecords[x].amount
    ]_vars

\* The sum of a field over the records ids of a store.
RECURSIVE SumOver(_, _, _)
SumOver(recs, ids, field) ==
  IF ids = {} THEN 0
  ELSE LET x == CHOOSE y \in ids : TRUE
       IN recs[x][field] + SumOver(recs, ids \ {x}, field)

\* C38: with no processTransactionSuccess call in progress, a customer has
\* an accumulator exactly when it has a pending billing record, and the
\* accumulator then counts the customer's pending records and holds the sum
\* of their amounts, below 10000, and the sum of their fees.
C38_AccumulatorMatchesPendingRecords ==
  \A c \in Customers :
    LET pending == PendingOf(billingRecords, c)
    IN /\ c \in DOMAIN customerBilling <=> pending # {}
       /\ c \in DOMAIN customerBilling =>
            /\ customerBilling[c].totalTransactions = Cardinality(pending)
            /\ customerBilling[c].totalAmount
                 = SumOver(billingRecords, pending, "amount")
            /\ customerBilling[c].totalFees
                 = SumOver(billingRecords, pending, "processingFee")
            /\ customerBilling[c].totalAmount < InvoiceThreshold

\* Success events that reach the invoicing threshold each on its own: two
\* of customer c1 and one of customer c2.
InvoicedEvents ==
  {SuccessEvent("tx1", "c1", 12000), SuccessEvent("tx2", "c1", 12000),
   SuccessEvent("tx3", "c2", 12000)}

HandleInvoiced == \E e \in InvoicedEvents : BillingSuccess(e)

NextInvoices == Tick \/ HandleInvoiced

SpecInvoices == InitCommon /\ [][NextInvoices]_vars

\* The 'Invoice generated' lines of the log, one per invoice generation.
InvoiceLines ==
  {i \in DOMAIN billingLog : billingLog[i].message = "Invoice generated"}

\* C39: no two invoice generations assign the same invoiceId, whether they
\* are of one customer or of two and whether the clock has advanced between
\* them or not.
C39_InvoiceIdsAreDistinct ==
  \A i, j \in InvoiceLines :
    i # j => billingLog[i].invoiceId # billingLog[j].invoiceId

\* Calls i and j were the only two in flight together, j having started
\* while i was suspended, and both have returned; nothing has run since.
SettledPair(i, j) ==
  /\ j = served
  /\ i \in calls[j].overlaps
  /\ calls[j].overlaps = {i}
  /\ calls[i].overlaps = {}
  /\ \A k \in DOMAIN calls \ {j} : i \notin calls[k].overlaps
  /\ InFlight(calls) = {}
  /\ calls[i].logData.customerId = calls[j].logData.customerId

BillingFacts(B) ==
  [records |-> [x \in DOMAIN B.billingRecords |->
                  <<B.billingRecords[x].status, B.billingRecords[x].invoiceId>>],
   accumulators |-> Totals(B.customerBilling)]

\* What running e1 and then e2 from base can leave, the clock reading
\* lo..hi in each.
SerialBilling(base, e1, e2, lo, hi) ==
  {BillingFacts(processTransactionSuccess(
                  processTransactionSuccess(base, e1, t[1]), e2, t[2])) :
     t \in {u \in (lo..hi) \X (lo..hi) : u[1] <= u[2]}}

\* C9: when two processTransactionSuccess calls for one customer were in
\* flight at once and have both returned, the status and invoiceId of every
\* billing record and the accumulators are those of running the two calls
\* one after the other in one of the two orders.
C9_InterleavedBillingIsSerial ==
  \A i, j \in DOMAIN calls :
    SettledPair(i, j) =>
      BillingFacts(BillingState) \in
        SerialBilling(calls[i].base, calls[i].logData, calls[j].logData,
                      calls[i].since, now)
        \cup SerialBilling(calls[i].base, calls[j].logData, calls[i].logData,
                           calls[i].since, now)

(***************************************************************************)
(* FraudDetector                                                           *)
(*                                                                         *)
(* An attempt event is [event, customerId, amount, timestamp, metadata],   *)
(* metadata being left out when the log carries none.  Timestamps are the  *)
(* milliseconds new Date(timestamp).getTime() gives.  An IP address is the *)
(* tuple of its octets, NoIp when absent; an absent payment method or user *)
(* agent is Undefined.                                                     *)
(***************************************************************************)
AttemptDiscriminant == "transaction_attempt"

NoIp == << >>

\* logData.metadata?.paymentMethod and logData.metadata?.userAgent
MetaOf(logData, k) ==
  IF "metadata" \in DOMAIN logData /\ k \in DOMAIN logData.metadata
  THEN logData.metadata[k] ELSE Undefined

\* logData.metadata?.ipAddress
IpOf(logData) ==
  IF "metadata" \in DOMAIN logData /\ "ipAddress" \in DOMAIN logData.metadata
  THEN logData.metadata.ipAddress ELSE NoIp

\* this.transactionHistory.get(customerId) || []
HistoryOf(th, customerId) ==
  IF customerId \in DOMAIN th THEN th[customerId] ELSE << >>

RECURSIVE SumAmount(_)
SumAmount(h) == IF h = << >> THEN 0 ELSE h[1].amount + SumAmount(Tail(h))

\* history.slice(-n)
LastN(h, n) == SubSeq(h, IF Len(h) > n THEN Len(h) - n + 1 ELSE 1, Len(h))

Values(q) == {q[i] : i \in DOMAIN q}

\* The history entry analyzeTransaction pushes.
HistoryEntry(logData) ==
  [amount |-> logData.amount,
   timestamp |-> logData.timestamp,
   paymentMethod |-> MetaOf(logData, "paymentMethod"),
   ipAddress |-> IpOf(logData),
   userAgent |-> MetaOf(logData, "userAgent")]

pushHistory(th, logData) ==
  Put(th, logData.customerId,
      Append(HistoryOf(th, logData.customerId), HistoryEntry(logData)))

AlertRequest(alertType, severity, description) ==
  [alertType |-> alertType, severity |-> severity, description |-> description]

\* Each check gives, in order, the alerts it asks createFraudAlert for.  A
\* check reads the history once, before its first await.
checkVelocityRules(history, timestamp, hourlyCount, hourlyLimit) ==
  LET recentTransactions ==
        SelectSeq(history, LAMBDA x : timestamp - x.timestamp < OneHour)
      dailyTransactions ==
        SelectSeq(history, LAMBDA x : timestamp - x.timestamp < OneDay)
      hourlyAmount == SumAmount(recentTransactions)
  IN (IF Len(recentTransactions) > hourlyCount
      THEN << AlertRequest("velocity", "high",
                <<Len(recentTransactions), "transactions in last hour">>) >>
      ELSE << >>)
     \o (IF Len(dailyTransactions) > 20
         THEN << AlertRequest("velocity", "medium",
                   <<Len(dailyTransactions), "transactions in last day">>) >>
         ELSE << >>)
     \o (IF hourlyAmount > hourlyLimit
         THEN << AlertRequest("velocity", "critical",
                   <<hourlyAmount, "in transactions within hour">>) >>
         ELSE << >>)

\* Mutants of checkVelocityFraud: the hourly count compared with >= 5, and
\* the hourly amount compared with >= 100000.
checkVelocityFraudFromFive(history, timestamp) ==
  checkVelocityRules(history, timestamp, 4, 100000)

checkVelocityFraudInclusive(history, timestamp) ==
  checkVelocityRules(history, timestamp, 5, 99999)

\* recentTransactions.length > 5, hourlyAmount > 100000
checkVelocityFraud(history, timestamp) ==
  checkVelocityRules(history, timestamp, 5, 100000)

\* amount > averageAmount * 10, with averageAmount = sum / length, is
\* amount * length > sum * 10 for the positive length this is reached with.
checkAmountFraud(history, amount) ==
  IF Len(history) = 0 THEN << >>
  ELSE (IF amount * Len(history) > SumAmount(history) * 10 /\ amount > 50000
        THEN << AlertRequest("amount", "high",
                  <<amount, "is above customer average">>) >>
        ELSE << >>)
       \o (IF amount > 500000
           THEN << AlertRequest("amount", "medium",
                     <<amount, "Large transaction amount">>) >>
           ELSE << >>)

\* The payment-method rule, read from history.slice(-5).
checkMethodSwitching(history) ==
  LET recentMethods == LastN(history, 5)
      uniqueMethods ==
        Cardinality({recentMethods[i].paymentMethod :
                       i \in DOMAIN recentMethods})
  IN IF uniqueMethods >= 3
     THEN << AlertRequest("pattern", "medium",
               <<uniqueMethods, "methods in recent transactions">>) >>
     ELSE << >>

\* The user-agent rule, read from history.slice(-10) after the await of the
\* payment-method rule's alert, if there was one.
checkUserAgents(history) ==
  LET recentUserAgents ==
        SelectSeq(LastN(history, 10),
                  LAMBDA x : x.userAgent # Undefined /\ x.userAgent # "")
      uniqueUserAgents ==
        Cardinality({recentUserAgents[i].userAgent :
                       i \in DOMAIN recentUserAgents})
  IN IF uniqueUserAgents >= 4
     THEN << AlertRequest("device", "medium",
               <<uniqueUserAgents, "different user agents">>) >>
     ELSE << >>

checkPatternFraud(history) ==
  IF Len(history) < 3 THEN << >>
  ELSE checkMethodSwitching(history) \o checkUserAgents(history)

\* An ipAddress that is a number where a string is expected: truthy, and
\* without a split method.
NumberIp(n) == <<-1, n>>

IsString(ip) == ip = NoIp \/ ip[1] >= 0

\* checkLocationFraud throws a TypeError (ip.split is not a function) when
\* it gets as far as the recent addresses and one of them is not a string.
locationThrows(history, ipAddress) ==
  /\ ipAddress # NoIp
  /\ \E i \in DOMAIN LastN(history, 10) :
       /\ LastN(history, 10)[i].ipAddress # NoIp
       /\ ~IsString(LastN(history, 10)[i].ipAddress)

\* ip.split('.').slice(0, 2).join('.')
IpPrefix(ip) == SubSeq(ip, 1, IF Len(ip) < 2 THEN Len(ip) ELSE 2)

checkLocationFraud(history, ipAddress) ==
  IF ipAddress = NoIp \/ locationThrows(history, ipAddress) THEN << >>
  ELSE LET recentIPs ==
             SelectSeq(LastN(history, 10), LAMBDA x : x.ipAddress # NoIp)
           uniquePrefixes ==
             Cardinality({IpPrefix(recentIPs[i].ipAddress) :
                            i \in DOMAIN recentIPs})
       IN IF uniquePrefixes >= 3
          THEN << AlertRequest("location", "medium",
                    <<uniquePrefixes, "different IP ranges">>) >>
          ELSE << >>

\* `alert_${Date.now()}_${Math.random().toString(36).substr(2, 9)}`
AlertId(t, rnd) == <<t, rnd>>

\* createFraudAlert: the alert stored under its id, the warning logged, and
\* the blocking notification for a critical one.
createFraudAlert(F, customerId, req, t, rnd) ==
  LET alertId == AlertId(t, rnd)
      alert == [id |-> alertId,
                transactionId |-> <<"tmp", t>>,
                customerId |-> customerId,
                alertType |-> req.alertType,
                severity |-> req.severity,
                description |-> req.description,
                timestamp |-> t,
                resolved |-> FALSE,
                falsePositive |-> FALSE]
  IN [F EXCEPT
        !.fraudAlerts = Put(@, alertId, alert),
        !.fraudLog = @ \o
          << [level |-> "warn", message |-> "Fraud alert created",
              customerId |-> customerId, alertType |-> req.alertType,
              severity |-> req.severity] >>
          \o (IF req.severity = "critical"
              THEN << [level |-> "error",
                       message |-> "CRITICAL FRAUD ALERT - BLOCKING CUSTOMER",
                       customerId |-> customerId] >>
              ELSE << >>)]

\* The alerts a check asks for, created in order with the draws rnds.
RECURSIVE createFraudAlerts(_, _, _, _, _)
createFraudAlerts(F, customerId, reqs, t, rnds) ==
  IF reqs = << >> THEN F
  ELSE createFraudAlerts(
         createFraudAlert(F, customerId, Head(reqs), t, Head(rnds)),
         customerId, Tail(reqs), t, Tail(rnds))

SeverityWeight(severity) ==
  CASE severity = "critical" -> 50
    [] severity = "high" -> 25
    [] severity = "medium" -> 10
    [] severity = "low" -> 5
    [] OTHER -> 0

\* The score summed alert by alert, as the forEach does.
RECURSIVE SumWeights(_, _)
SumWeights(alerts, ids) ==
  IF ids = {} THEN 0
  ELSE LET x == CHOOSE y \in ids : TRUE
       IN SeverityWeight(alerts[x].severity) + SumWeights(alerts, ids \ {x})

\* The mutant of calculateFraudScore: the cap left out.
calculateFraudScoreUncapped(alerts, ids) == SumWeights(alerts, ids)

\* calculateFraudScore over the alerts ids of the store alerts.
calculateFraudScore(alerts, ids) ==
  LET score == SumWeights(alerts, ids)
  IN IF score < 100 THEN score ELSE 100

updateFraudProfile(F, customerId, t) ==
  LET alerts == {x \in DOMAIN F.fraudAlerts :
                   F.fraudAlerts[x].customerId = customerId}
      highRiskAlerts == {x \in alerts :
                           F.fraudAlerts[x].severity \in {"high", "critical"}}
  IN [F EXCEPT !.customerProfiles =
        Put(@, customerId,
            [customerId |-> customerId,
             totalAlerts |-> Cardinality(alerts),
             highRiskTransactions |-> Cardinality(highRiskAlerts),
             suspiciousPatterns |-> {F.fraudAlerts[x].alertType : x \in alerts},
             lastFraudCheck |-> t,
             fraudScore |-> calculateFraudScore(F.fraudAlerts, alerts),
             whiteListed |-> FALSE])]

FraudState == [fraudAlerts |-> fraudAlerts,
               customerProfiles |-> customerProfiles,
               transactionHistory |-> transactionHistory,
               fraudLog |-> fraudLog]

\* The alerts one attempt asks for when its four checks all read the
\* history h.
FraudRequests(h, logData) ==
  checkVelocityFraud(h, logData.timestamp)
  \o checkAmountFraud(h, logData.amount)
  \o checkPatternFraud(h)
  \o checkLocationFraud(h, IpOf(logData))

\* The end of analyzeTransaction when no check has thrown: the profile is
\* recomputed and 'Fraud analysis completed' is logged.
completeAnalysis(F, logData, t) ==
  [updateFraudProfile(F, logData.customerId, t) EXCEPT !.fraudLog = @ \o
     << [level |-> "info", message |-> "Fraud analysis completed",
         customerId |-> logData.customerId] >>]

\* Mutant of failAnalysis: the catch block logs nothing.
failAnalysisUnlogged(F, logData) == F

\* The catch block: what was written before the throw stays and 'Fraud
\* analysis failed' is logged.
failAnalysis(F, logData) ==
  [F EXCEPT !.fraudLog = @ \o
     << [level |-> "error", message |-> "Fraud analysis failed",
         error |-> "ip.split is not a function",
         logData |-> logData] >>]

\* The whole of analyzeTransaction, run without interleaving; rnds are the
\* values Math.random gives, one per alert.
analyzeTransaction(F, logData, t, rnds) ==
  IF EventOf(logData) # AttemptDiscriminant THEN F
  ELSE LET pushed == [F EXCEPT !.transactionHistory = pushHistory(@, logData)]
           h == HistoryOf(pushed.transactionHistory, logData.customerId)
           alerted == createFraudAlerts(pushed, logData.customerId,
                                        FraudRequests(h, logData), t, rnds)
       IN IF locationThrows(h, IpOf(logData))
          THEN failAnalysis(alerted, logData)
          ELSE completeAnalysis(alerted, logData, t)

\* How many values of Math.random the call reads.
DrawsNeeded(F, logData) ==
  IF EventOf(logData) # AttemptDiscriminant THEN 0
  ELSE Len(FraudRequests(
             HistoryOf(pushHistory(F.transactionHistory, logData),
                       logData.customerId), logData))

getFraudAlerts(F, customerId) ==
  {x \in DOMAIN F.fraudAlerts : F.fraudAlerts[x].customerId = customerId}

\* The mutant of resolveAlert: every alert of the alert's customer is
\* marked, not only the one named.
resolveAlertOfCustomer(F, alertId, falsePositive) ==
  IF alertId \in DOMAIN F.fraudAlerts
  THEN [F EXCEPT
          !.fraudAlerts =
            [x \in DOMAIN @ |->
               IF @[x].customerId = @[alertId].customerId
               THEN [@[x] EXCEPT !.resolved = TRUE,
                                 !.falsePositive = falsePositive]
               ELSE @[x]],
          !.fraudLog = @ \o
            << [level |-> "info", message |-> "Fraud alert resolved",
                alertId |-> alertId,
                falsePositive |-> falsePositive] >>]
  ELSE F

resolveAlert(F, alertId, falsePositive) ==
  IF alertId \in DOMAIN F.fraudAlerts
  THEN [F EXCEPT !.fraudAlerts[alertId].resolved = TRUE,
                 !.fraudAlerts[alertId].falsePositive = falsePositive,
                 !.fraudLog = @ \o
                   << [level |-> "info", message |-> "Fraud alert resolved",
                       alertId |-> alertId,
                       falsePositive |-> falsePositive] >>]
  ELSE F

(***************************************************************************)
(* Inputs of the fraud specifications.                                     *)
(***************************************************************************)
\* The values Math.random gives a call that reads n of them: nine base-36
\* digits each, taken to differ from one another and from every earlier draw
\* (drawn counts the draws made so far).
FreshDraws(drawn, n) == [i \in 1..n |-> drawn + i]

DrawnSoFar(F) ==
  Cardinality({i \in DOMAIN F.fraudLog :
                 F.fraudLog[i].message = "Fraud alert created"})

AttemptEvent(c, a, ts, method, ip, ua) ==
  [event |-> AttemptDiscriminant, customerId |-> c, amount |-> a,
   currency |-> "USD", timestamp |-> ts,
   metadata |-> [paymentMethod |-> method, ipAddress |-> ip, userAgent |-> ua]]

HomeIp == <<192, 168, 1, 1>>

\* Attempts of two customers, small and large, those of c1 an hour apart
\* or not.
FraudAmounts == {5000, 100000, 600000}

FraudEvents ==
  {AttemptEvent("c1", a, ts, "card", HomeIp, "ua1") :
     a \in FraudAmounts, ts \in {0, OneHour}}
  \cup {AttemptEvent("c2", a, 0, "card", HomeIp, "ua1") : a \in FraudAmounts}

FraudAnalyze(logData) ==
  /\ served < MaxAttempts
  /\ served' = served + 1
  /\ LET rnds == FreshDraws(DrawnSoFar(FraudState),
                            DrawsNeeded(FraudState, logData))
         F == analyzeTransaction(FraudState, logData, now, rnds)
     IN   /\ fraudAlerts' = F.fraudAlerts
          /\ customerProfiles' = F.customerProfiles
          /\ transactionHistory' = F.transactionHistory
          /\ fraudLog' = F.fraudLog
  /\ UNCHANGED <<now, billingVars, analyticsVars, producerVars, calls>>

\* resolveAlert for a stored alert, or for an id that is not stored.
FraudResolve(alertId, falsePositive) ==
  /\ served < MaxAttempts
  /\ served' = served + 1
  /\ LET F == resolveAlert(FraudState, alertId, falsePositive)
     IN   /\ fraudAlerts' = F.fraudAlerts
          /\ customerProfiles' = F.customerProfiles
          /\ transactionHistory' = F.transactionHistory
          /\ fraudLog' = F.fraudLog
  /\ UNCHANGED <<now, billingVars, analyticsVars, producerVars, calls>>

Analyze == \E e \in FraudEvents : FraudAnalyze(e)

Resolve ==
  \E x \in DOMAIN fraudAlerts \cup {AlertId(0, 0)}, falsePositive \in BOOLEAN :
    FraudResolve(x, falsePositive)

NextFraud == Tick \/ Analyze \/ Resolve

SpecFraud == InitCommon /\ [][NextFraud]_vars

\* One customer's attempts of 1000, at 0, 30 and 60 minutes.
BurstEvents ==
  {AttemptEvent("c1", 1000, ts, "card", HomeIp, "ua1") :
     ts \in {0, 30 * 60 * 1000, OneHour}}

BurstAnalyze(logData) ==
  /\ served < MaxBurst
  /\ served' = served + 1
  /\ LET rnds == FreshDraws(DrawnSoFar(FraudState),
                            DrawsNeeded(FraudState, logData))
         F == analyzeTransaction(FraudState, logData, now, rnds)
     IN   /\ fraudAlerts' = F.fraudAlerts
          /\ customerProfiles' = F.customerProfiles
          /\ transactionHistory' = F.transactionHistory
          /\ fraudLog' = F.fraudLog
  /\ UNCHANGED <<now, billingVars, analyticsVars, producerVars, calls>>

Burst == \E e \in BurstEvents : BurstAnalyze(e)

NextVelocity == Tick \/ Burst

SpecVelocity == InitCommon /\ [][NextVelocity]_vars

(***************************************************************************)
(* FraudDetector with calls in flight at once.  analyzeTransaction awaits  *)
(* each check and each check awaits each createFraudAlert, so a call's     *)
(* turn ends after every alert it creates and after every check.           *)
(***************************************************************************)
\* The turn of a call that has the alerts reqs to create and goes on to
\* pc afterwards: the first alert is created, the others wait.
raise(F, call, reqs, pc, t, rnd) ==
  IF reqs = << >>
  THEN [F |-> F, call |-> [call EXCEPT !.pc = pc, !.todo = << >>]]
  ELSE [F |-> createFraudAlert(F, call.logData.customerId, Head(reqs), t, rnd),
        call |-> [call EXCEPT !.pc = pc, !.todo = Tail(reqs)]]

\* analyzeTransaction up to its first await: the history entry is pushed
\* and checkVelocityFraud reads the history.
begin(F, call, t, rnd) ==
  IF EventOf(call.logData) # AttemptDiscriminant
  THEN [F |-> F, call |-> [call EXCEPT !.pc = "done"]]
  ELSE LET pushed ==
             [F EXCEPT !.transactionHistory = pushHistory(@, call.logData)]
           h == HistoryOf(pushed.transactionHistory, call.logData.customerId)
       IN raise(pushed, call,
                checkVelocityFraud(h, call.logData.timestamp), "amount", t, rnd)

\* One turn of a suspended call, from the await it stands at to the next.
resume(F, call, t, rnd) ==
  LET logData == call.logData
      h == HistoryOf(F.transactionHistory, logData.customerId)
  IN IF call.todo # << >> THEN raise(F, call, call.todo, call.pc, t, rnd)
     ELSE CASE call.pc = "amount" ->
                 raise(F, call, checkAmountFraud(h, logData.amount),
                       "pattern", t, rnd)
            [] call.pc = "pattern" ->
                 IF Len(h) < 3 THEN raise(F, call, << >>, "location", t, rnd)
                 ELSE IF checkMethodSwitching(h) # << >>
                 THEN raise(F, call, checkMethodSwitching(h), "device", t, rnd)
                 ELSE raise(F, call, checkUserAgents(h), "location", t, rnd)
            [] call.pc = "device" ->
                 raise(F, call, checkUserAgents(h), "location", t, rnd)
            [] call.pc = "location" ->
                 IF locationThrows(h, IpOf(logData))
                 THEN [F |-> failAnalysis(F, logData),
                       call |-> [call EXCEPT !.pc = "done"]]
                 ELSE raise(F, call, checkLocationFraud(h, IpOf(logData)),
                            "profile", t, rnd)
            [] call.pc = "profile" ->
                 [F |-> updateFraudProfile(F, logData.customerId, t),
                  call |-> [call EXCEPT !.pc = "log"]]
            [] call.pc = "log" ->
                 [F |-> [F EXCEPT !.fraudLog = @ \o
                           << [level |-> "info",
                               message |-> "Fraud analysis completed",
                               customerId |-> logData.customerId] >>],
                  call |-> [call EXCEPT !.pc = "done"]]

\* One customer's attempts of 5000 with three payment methods.
InterleavedAttempts ==
  {AttemptEvent("c1", 5000, 0, m, HomeIp, "ua1") : m \in Methods}

FraudStart(logData) ==
  LET r == begin(FraudState,
                 [logData |-> logData, pc |-> "start", todo |-> << >>,
                  base |-> FraudState, overlaps |-> InFlight(calls)],
                 now, DrawnSoFar(FraudState) + 1)
  IN /\ served < MaxAttempts
     /\ Cardinality(InFlight(calls)) < MaxInFlight
     /\ served' = served + 1
     /\ fraudAlerts' = r.F.fraudAlerts
     /\ customerProfiles' = r.F.customerProfiles
     /\ transactionHistory' = r.F.transactionHistory
     /\ fraudLog' = r.F.fraudLog
     /\ calls' = Put(calls, served + 1, r.call)
     /\ UNCHANGED <<now, billingVars, analyticsVars, producerVars>>

FraudResume(k) ==
  /\ calls[k].pc # "done"
  /\ LET r == resume(FraudState, calls[k], now, DrawnSoFar(FraudState) + 1)
     IN /\ fraudAlerts' = r.F.fraudAlerts
        /\ customerProfiles' = r.F.customerProfiles
        /\ transactionHistory' = r.F.transactionHistory
        /\ fraudLog' = r.F.fraudLog
        /\ calls' = [calls EXCEPT ![k] = r.call]
  /\ UNCHANGED <<now, served, billingVars, analyticsVars, producerVars>>

StartAttempt == \E e \in InterleavedAttempts : FraudStart(e)

Resume == \E k \in DOMAIN calls : FraudResume(k)

NextFraudInterleaved == Tick \/ StartAttempt \/ Resume

SpecFraudInterleaved == InitCommon /\ [][NextFraudInterleaved]_vars

AlertKinds ==
  {"velocity", "amount", "pattern", "device", "location"}
  \X {"low", "medium", "high", "critical"}

CreatedIn(log, c, alertType, severity) ==
  Cardinality({i \in DOMAIN log : /\ log[i].message = "Fraud alert created"
                                  /\ log[i].customerId = c
                                  /\ log[i].alertType = alertType
                                  /\ log[i].severity = severity})

ProfileFacts(F, c) ==
  IF c \in DOMAIN F.customerProfiles
  THEN <<F.customerProfiles[c].totalAlerts,
         F.customerProfiles[c].highRiskTransactions,
         F.customerProfiles[c].suspiciousPatterns,
         F.customerProfiles[c].fraudScore>>
  ELSE << >>

\* How many alerts of each kind were created for c, and c's profile.
FraudFacts(F, c) ==
  [created |-> [k \in AlertKinds |-> CreatedIn(F.fraudLog, c, k[1], k[2])],
   profile |-> ProfileFacts(F, c)]

\* Running e1 and then e2 from base, at clock reading t.
SerialFraud(base, e1, e2, t) ==
  LET first == analyzeTransaction(base, e1, t,
                 FreshDraws(DrawnSoFar(base), DrawsNeeded(base, e1)))
  IN analyzeTransaction(first, e2, t,
       FreshDraws(DrawnSoFar(first), DrawsNeeded(first, e2)))

\* C10: when two analyzeTransaction calls for one customer were in flight
\* at once and have both returned, the number of alerts created of each
\* (alertType, severity) and the customer's profile are those of running
\* the two calls one after the other in one of the two orders.
C10_InterleavedAnalysisIsSerial ==
  \A i, j \in DOMAIN calls :
    SettledPair(i, j) =>
      LET c == calls[i].logData.customerId
      IN FraudFacts(FraudState, c) \in
           {FraudFacts(SerialFraud(calls[i].base, calls[i].logData,
                                   calls[j].logData, now), c),
            FraudFacts(SerialFraud(calls[i].base, calls[j].logData,
                                   calls[i].logData, now), c)}

\* Attempts with their metadata, without metadata, and with a number as
\* ipAddress.
FaultyAttempts ==
  {AttemptEvent("c1", 5000, 0, "card", HomeIp, "ua1"),
   AttemptEvent("c1", 5000, 0, "card", NumberIp(12345), "ua1"),
   AttemptEvent("c1", 600000, 0, "card", NumberIp(12345), "ua1"),
   [event |-> AttemptDiscriminant, customerId |-> "c1", amount |-> 5000,
    timestamp |-> 0]}

AnalyzeFaulty == \E e \in FaultyAttempts : FraudAnalyze(e)

NextFraudFaulty == Tick \/ AnalyzeFaulty

SpecFraudFaulty == InitCommon /\ [][NextFraudFaulty]_vars

(***************************************************************************)
(* Math.random left free: the suffix of an alert id is any of a few        *)
(* values, the same one twice included.                                    *)
(***************************************************************************)
DrawValues == {1, 2}

DrawnAttempts ==
  {AttemptEvent(c, a, 0, "card", HomeIp, "ua1") :
     c \in Customers, a \in {5000, 600000}}

FraudAnalyzeDrawn(logData, rnds) ==
  /\ served < MaxAttempts
  /\ served' = served + 1
  /\ LET F == analyzeTransaction(FraudState, logData, now, rnds)
     IN   /\ fraudAlerts' = F.fraudAlerts
          /\ customerProfiles' = F.customerProfiles
          /\ transactionHistory' = F.transactionHistory
          /\ fraudLog' = F.fraudLog
  /\ UNCHANGED <<now, billingVars, analyticsVars, producerVars, calls>>

AnalyzeDrawn ==
  \E e \in DrawnAttempts :
    \E rnds \in [1..DrawsNeeded(FraudState, e) -> DrawValues] :
      FraudAnalyzeDrawn(e, rnds)

NextFraudDrawn == Tick \/ AnalyzeDrawn

SpecFraudDrawn == InitCommon /\ [][NextFraudDrawn]_vars

(***************************************************************************)
(* One customer's attempts with a payment method or a user agent of        *)
(* several, or with none.                                                  *)
(***************************************************************************)
PatternMetadata ==
  {[paymentMethod |-> "card", ipAddress |-> HomeIp, userAgent |-> "ua1"],
   [paymentMethod |-> "bank_transfer", ipAddress |-> HomeIp,
    userAgent |-> "ua2"],
   [paymentMethod |-> "wallet", ipAddress |-> HomeIp, userAgent |-> "ua3"],
   [ipAddress |-> HomeIp, userAgent |-> "ua4"],
   [paymentMethod |-> "card", ipAddress |-> HomeIp]}

PatternEvents ==
  {[event |-> AttemptDiscriminant, customerId |-> "c1", amount |-> 3000,
    currency |-> "USD", timestamp |-> 0, metadata |-> metadata] :
     metadata \in PatternMetadata}

PatternAnalyze(logData) ==
  /\ served < MaxPattern
  /\ served' = served + 1
  /\ LET rnds == FreshDraws(DrawnSoFar(FraudState),
                            DrawsNeeded(FraudState, logData))
         F == analyzeTransaction(FraudState, logData, now, rnds)
     IN   /\ fraudAlerts' = F.fraudAlerts
          /\ customerProfiles' = F.customerProfiles
          /\ transactionHistory' = F.transactionHistory
          /\ fraudLog' = F.fraudLog
  /\ UNCHANGED <<now, billingVars, analyticsVars, producerVars, calls>>

AnalyzePattern == \E e \in PatternEvents : PatternAnalyze(e)

NextPattern == Tick \/ AnalyzePattern

SpecPattern == InitCommon /\ [][NextPattern]_vars

(***************************************************************************)
(* One customer's attempts from addresses of three ranges, or with no      *)
(* address.                                                                *)
(***************************************************************************)
LocationMetadata ==
  {[paymentMethod |-> "card", ipAddress |-> HomeIp, userAgent |-> "ua1"],
   [paymentMethod |-> "card", ipAddress |-> <<10, 0, 0, 1>>,
    userAgent |-> "ua1"],
   [paymentMethod |-> "card", ipAddress |-> <<172, 16, 0, 1>>,
    userAgent |-> "ua1"],
   [paymentMethod |-> "card", userAgent |-> "ua1"]}

LocationEvents ==
  {[event |-> AttemptDiscriminant, customerId |-> "c1", amount |-> 2000,
    currency |-> "USD", timestamp |-> 0, metadata |-> metadata] :
     metadata \in LocationMetadata}

AnalyzeLocation == \E e \in LocationEvents : PatternAnalyze(e)

NextLocation == Tick \/ AnalyzeLocation

SpecLocation == InitCommon /\ [][NextLocation]_vars

(***************************************************************************)
(* Fraud claims                                                            *)
(***************************************************************************)
AlertsOf(c, severity) ==
  {x \in DOMAIN fraudAlerts : /\ fraudAlerts[x].customerId = c
                              /\ fraudAlerts[x].severity = severity}

WeightedAlerts(c) ==
  50 * Cardinality(AlertsOf(c, "critical")) + 25 * Cardinality(AlertsOf(c, "high"))
  + 10 * Cardinality(AlertsOf(c, "medium")) + 5 * Cardinality(AlertsOf(c, "low"))

\* C4: every stored profile has a fraudScore between 0 and 100, equal to the
\* smaller of 100 and the sum of the weights (critical 50, high 25, medium
\* 10, low 5) of that customer's alerts.
C4_ScoreIsCappedSum ==
  \A c \in DOMAIN customerProfiles :
    /\ customerProfiles[c].fraudScore >= 0
    /\ customerProfiles[c].fraudScore <= 100
    /\ customerProfiles[c].fraudScore =
         IF WeightedAlerts(c) < 100 THEN WeightedAlerts(c) ELSE 100

\* C4 witness: a profile whose alerts weigh more than 100 and one whose
\* alerts weigh less, both written by analyzeTransaction.
C4_Witness ==
  /\ DOMAIN customerProfiles = Customers
  /\ WeightedAlerts("c1") > 100
  /\ customerProfiles["c1"].fraudScore = 100
  /\ WeightedAlerts("c2") = 60
  /\ customerProfiles["c2"].fraudScore = 60

\* The 'Fraud alert created' lines of one customer, type and severity.
CreatedFor(c, alertType, severity) ==
  {i \in DOMAIN fraudLog : /\ fraudLog[i].message = "Fraud alert created"
                           /\ fraudLog[i].customerId = c
                           /\ fraudLog[i].alertType = alertType
                           /\ fraudLog[i].severity = severity}

WithinOneHour(h) ==
  \A i, j \in DOMAIN h : h[i].timestamp - h[j].timestamp < OneHour

\* C5: a customer's n-th attempt never creates a velocity/high alert for
\* n <= 5 and never creates two; while all of the customer's attempts lie
\* less than one hour apart, the 6th and every later one create exactly one
\* each, so n attempts have created n - 5 of them.
C5_OneVelocityAlertPerAttempt ==
  \A c \in DOMAIN transactionHistory :
    LET n == Len(transactionHistory[c])
        created == Cardinality(CreatedFor(c, "velocity", "high"))
    IN /\ created <= (IF n > 5 THEN n - 5 ELSE 0)
       /\ WithinOneHour(transactionHistory[c]) =>
            created = (IF n > 5 THEN n - 5 ELSE 0)

\* C5 witness: seven attempts within one hour, the 6th and the 7th having
\* created one velocity/high alert each.
C5_Witness ==
  /\ "c1" \in DOMAIN transactionHistory
  /\ Len(transactionHistory["c1"]) = 7
  /\ WithinOneHour(transactionHistory["c1"])
  /\ Cardinality(CreatedFor("c1", "velocity", "high")) = 2
  /\ Cardinality(AlertsOf("c1", "high")) = 2

\* C14: resolveAlert on an alert that exists sets its resolved to true and
\* its falsePositive to the value given and changes nothing else: the
\* alert's other fields, every other alert, the set of alerts, the histories
\* and the profiles stay as they were.  On an alertId that names no alert it
\* changes no state at all.
C14_ResolveTouchesOneAlert ==
  [][\A x \in DOMAIN fraudAlerts \cup {AlertId(0, 0)}, fp \in BOOLEAN :
       FraudResolve(x, fp) =>
         IF x \in DOMAIN fraudAlerts
         THEN /\ DOMAIN fraudAlerts' = DOMAIN fraudAlerts
              /\ fraudAlerts'[x].resolved = TRUE
              /\ fraudAlerts'[x].falsePositive = fp
              /\ [fraudAlerts'[x] EXCEPT
                    !.resolved = fraudAlerts[x].resolved,
                    !.falsePositive = fraudAlerts[x].falsePositive]
                   = fraudAlerts[x]
              /\ \A y \in DOMAIN fraudAlerts \ {x} :
                   fraudAlerts'[y] = fraudAlerts[y]
              /\ transactionHistory' = transactionHistory
              /\ customerProfiles' = customerProfiles
         ELSE UNCHANGED fraudVars
    ]_vars

\* C14 witness: of two alerts of one customer one has been resolved as a
\* false positive and the other is still open.
C14_Witness ==
  \E x, y \in DOMAIN fraudAlerts :
    /\ x # y
    /\ fraudAlerts[x].customerId = fraudAlerts[y].customerId
    /\ fraudAlerts[x].resolved /\ fraudAlerts[x].falsePositive
    /\ ~fraudAlerts[y].resolved
    /\ \E i \in DOMAIN fraudLog :
         /\ fraudLog[i].message = "Fraud alert resolved"
         /\ fraudLog[i].alertId = x

\* C15: a customer whose whole history is one attempt of more than 500000
\* has exactly one fraud alert.
C15_LargeFirstAttemptRaisesOneAlert ==
  \A c \in DOMAIN transactionHistory :
    (/\ Len(transactionHistory[c]) = 1
     /\ transactionHistory[c][1].amount > 500000) =>
       Cardinality(getFraudAlerts(FraudState, c)) = 1

\* The weights of the customer's alerts that are not resolved, after a step.
UnresolvedWeight(c) ==
  LET open(severity) ==
        Cardinality({x \in DOMAIN fraudAlerts' :
                       /\ fraudAlerts'[x].customerId = c
                       /\ fraudAlerts'[x].severity = severity
                       /\ ~fraudAlerts'[x].resolved})
  IN 50 * open("critical") + 25 * open("high") + 10 * open("medium")
     + 5 * open("low")

\* C22: the fraudScore analyzeTransaction stores for the attempt's customer
\* is the smaller of 100 and the sum of the weights of that customer's
\* unresolved alerts: an alert resolved before the call adds nothing.
C22_ScoreCountsUnresolvedAlertsOnly ==
  [][\A e \in FraudEvents :
       FraudAnalyze(e) =>
         customerProfiles'[e.customerId].fraudScore =
           IF UnresolvedWeight(e.customerId) < 100
           THEN UnresolvedWeight(e.customerId) ELSE 100
    ]_vars

\* C25: every customer for whom an analyzeTransaction call has returned has
\* a profile, and the profile matches the alert store: totalAlerts is the
\* number of the customer's alerts, highRiskTransactions the number of them
\* of severity high or critical, suspiciousPatterns the set of their types.
C25_ProfileMatchesAlertStore ==
  \A c \in DOMAIN transactionHistory :
    LET alerts == getFraudAlerts(FraudState, c)
    IN /\ c \in DOMAIN customerProfiles
       /\ customerProfiles[c].totalAlerts = Cardinality(alerts)
       /\ customerProfiles[c].highRiskTransactions =
            Cardinality({x \in alerts :
                           fraudAlerts[x].severity \in {"high", "critical"}})
       /\ customerProfiles[c].suspiciousPatterns =
            {fraudAlerts[x].alertType : x \in alerts}

\* C26: every rule that fires in an analyzeTransaction call adds one alert
\* under an id no stored alert has, unresolved and not a false positive:
\* the alerts stored before the call are kept as they are and the store
\* grows by the number of rules that fired.
C26_EveryFiringAddsOneAlert ==
  [][\A e \in DrawnAttempts :
       \A rnds \in [1..DrawsNeeded(FraudState, e) -> DrawValues] :
         FraudAnalyzeDrawn(e, rnds) =>
           /\ \A x \in DOMAIN fraudAlerts :
                x \in DOMAIN fraudAlerts' /\ fraudAlerts'[x] = fraudAlerts[x]
           /\ Cardinality(DOMAIN fraudAlerts') =
                Cardinality(DOMAIN fraudAlerts) + DrawsNeeded(FraudState, e)
           /\ \A x \in DOMAIN fraudAlerts' \ DOMAIN fraudAlerts :
                ~fraudAlerts'[x].resolved /\ ~fraudAlerts'[x].falsePositive
    ]_vars

\* The 'Fraud alert created' lines of a kind that a step added to the log.
Raised(alertType, severity) ==
  LET lines == SubSeq(fraudLog', Len(fraudLog) + 1, Len(fraudLog'))
  IN Cardinality({i \in DOMAIN lines :
                    /\ lines[i].message = "Fraud alert created"
                    /\ lines[i].alertType = alertType
                    /\ lines[i].severity = severity})

\* C27: with avg the mean of the customer's amounts before the attempt, an
\* attempt creates an amount/high alert exactly when its amount is above
\* 10 * avg and above 50000, and an amount/medium alert exactly when its
\* amount is above 500000.  (amount > 10 * avg is stated without division
\* as amount * n > 10 * sum, n being the number of earlier attempts.)
C27_AmountRuleUsesPriorAverage ==
  [][\A e \in FraudEvents :
       FraudAnalyze(e) =>
         LET prior == HistoryOf(transactionHistory, e.customerId)
         IN /\ Raised("amount", "high") =
                 IF /\ prior # << >>
                    /\ e.amount * Len(prior) > 10 * SumAmount(prior)
                    /\ e.amount > 50000
                 THEN 1 ELSE 0
            /\ Raised("amount", "medium") =
                 IF e.amount > 500000 THEN 1 ELSE 0
    ]_vars

\* The entries of a history, the current one included, whose timestamp
\* lies within span before T and not after T.
WindowUpTo(history, T, span) ==
  SelectSeq(history, LAMBDA x : T - span < x.timestamp /\ x.timestamp <= T)

\* C28: with the 1h and 24h windows made of the customer's entries, the
\* current one included, timestamped less than one hour (24 hours) before
\* the attempt's timestamp T and not later than T, an attempt creates a
\* velocity/high alert exactly when the 1h window has more than 5 entries,
\* a velocity/medium alert exactly when the 24h window has more than 20,
\* and a velocity/critical alert exactly when the amounts of the 1h window
\* sum to more than 100000.
C28_VelocityWindowsEndAtTheAttempt ==
  [][\A e \in FraudEvents :
       FraudAnalyze(e) =>
         LET history == HistoryOf(transactionHistory', e.customerId)
             hour == WindowUpTo(history, e.timestamp, OneHour)
             day == WindowUpTo(history, e.timestamp, OneDay)
         IN /\ Raised("velocity", "high") = IF Len(hour) > 5 THEN 1 ELSE 0
            /\ Raised("velocity", "medium") = IF Len(day) > 20 THEN 1 ELSE 0
            /\ Raised("velocity", "critical") =
                 IF SumAmount(hour) > 100000 THEN 1 ELSE 0
    ]_vars

\* The attempt event a history entry of customer c was pushed for.
EventOfEntry(c, entry) ==
  AttemptEvent(c, entry.amount, entry.timestamp, entry.paymentMethod,
               entry.ipAddress, entry.userAgent)

\* A second run fed the attempts entries of customer c from a detector
\* just constructed: the k-th call reads the wall clock as t + k - 1 and
\* Math.random gives values that never repeat.
RECURSIVE Replayed(_, _, _, _)
Replayed(F, c, entries, t) ==
  IF entries = << >> THEN F
  ELSE LET e == EventOfEntry(c, Head(entries))
           rnds == FreshDraws(DrawnSoFar(F), DrawsNeeded(F, e))
       IN Replayed(analyzeTransaction(F, e, t, rnds), c, Tail(entries), t + 1)

\* The alerts created for customer c, in order, as the log records them.
CreatedKinds(log, c) ==
  LET lines == SelectSeq(log, LAMBDA x : /\ x.message = "Fraud alert created"
                                         /\ x.customerId = c)
  IN [i \in DOMAIN lines |-> <<lines[i].alertType, lines[i].severity>>]

\* C29: the alerts created for a customer (type and severity, in order) and
\* the customer's fraudScore are those of any other run fed the same
\* attempts, whatever the wall clock and Math.random gave either run.
C29_AlertsAndScoreFollowFromEvents ==
  \A c \in DOMAIN transactionHistory :
    LET R == Replayed([fraudAlerts |-> EmptyMap, customerProfiles |-> EmptyMap,
                       transactionHistory |-> EmptyMap, fraudLog |-> << >>],
                      c, transactionHistory[c], 0)
    IN /\ CreatedKinds(fraudLog, c) = CreatedKinds(R.fraudLog, c)
       /\ c \in DOMAIN customerProfiles
       /\ customerProfiles[c].fraudScore = R.customerProfiles[c].fraudScore

\* The values other than an absent one that the entries of a history
\* have in field.
DistinctPresent(history, field) ==
  {history[i][field] : i \in DOMAIN history} \ {Undefined, ""}

\* C30: an attempt creates a pattern/medium alert exactly when the payment
\* methods of the customer's last 5 entries, the current one included and
\* absent ones left out, are at least 3 distinct values, and a
\* device/medium alert exactly when the user agents of the last 10 entries,
\* absent ones left out, are at least 4 distinct values.
C30_AbsentValuesAreNotCounted ==
  [][\A e \in PatternEvents :
       PatternAnalyze(e) =>
         LET history == HistoryOf(transactionHistory', e.customerId)
             methods == DistinctPresent(LastN(history, 5), "paymentMethod")
             agents == DistinctPresent(LastN(history, 10), "userAgent")
         IN /\ Raised("pattern", "medium") =
                 IF Cardinality(methods) >= 3 THEN 1 ELSE 0
            /\ Raised("device", "medium") =
                 IF Cardinality(agents) >= 4 THEN 1 ELSE 0
    ]_vars

\* The first-two-octet prefixes of the addresses the entries of a history
\* carry.
PrefixesIn(history) ==
  {IpPrefix(history[i].ipAddress) :
     i \in {j \in DOMAIN history : history[j].ipAddress # NoIp}}

\* C31: an attempt creates a location/medium alert exactly when the
\* addresses of the customer's last 10 entries, the current one included
\* and absent ones left out, have at least 3 distinct first-two-octet
\* prefixes, whether the attempt itself carries an address or not.
C31_LocationRuleReadsTheHistory ==
  [][\A e \in LocationEvents :
       PatternAnalyze(e) =>
         LET history == HistoryOf(transactionHistory', e.customerId)
         IN Raised("location", "medium") =
              IF Cardinality(PrefixesIn(LastN(history, 10))) >= 3
              THEN 1 ELSE 0
    ]_vars

\* C7: a customer whose whole history is one attempt of an amount not above
\* 100000, with one payment method, IP and user agent, has no fraud alert:
\* none was created and getFraudAlerts gives none.
C7_SingleNormalAttemptRaisesNoAlert ==
  \A c \in DOMAIN transactionHistory :
    (/\ Len(transactionHistory[c]) = 1
     /\ transactionHistory[c][1].amount <= 100000) =>
       /\ getFraudAlerts(FraudState, c) = {}
       /\ \A i \in DOMAIN fraudLog :
            fraudLog[i].message = "Fraud alert created" =>
              fraudLog[i].customerId # c

\* C7 witness: a customer analysed once, for 100000, with an empty profile,
\* beside a customer whose single attempt of 600000 did raise alerts.
C7_Witness ==
  /\ DOMAIN transactionHistory = Customers
  /\ Len(transactionHistory["c1"]) = 1
  /\ transactionHistory["c1"][1].amount = 100000
  /\ "c1" \in DOMAIN customerProfiles
  /\ customerProfiles["c1"].totalAlerts = 0
  /\ getFraudAlerts(FraudState, "c1") = {}
  /\ Len(transactionHistory["c2"]) = 1
  /\ getFraudAlerts(FraudState, "c2") # {}

\* The lines a step has added to fraudLog.
NewLines == SubSeq(fraudLog', Len(fraudLog) + 1, Len(fraudLog'))

Conclusions(lines) ==
  {i \in DOMAIN lines :
     lines[i].message \in {"Fraud analysis completed", "Fraud analysis failed"}}

\* C12: every analyzeTransaction call on an attempt event, its metadata
\* present, absent or carrying an ill-typed ipAddress, ends by logging
\* exactly one of 'Fraud analysis completed' and 'Fraud analysis failed',
\* as its last line; with metadata absent that line is 'Fraud analysis
\* completed'.
C12_AnalysisAlwaysConcludes ==
  [][\A e \in FaultyAttempts :
       FraudAnalyze(e) =>
         /\ Conclusions(NewLines) = {Len(NewLines)}
         /\ "metadata" \notin DOMAIN e =>
              NewLines[Len(NewLines)].message = "Fraud analysis completed"
    ]_vars

\* C12 witness: a call has failed on a number given as ipAddress, and a
\* later call without metadata has completed for the same customer.
C12_Witness ==
  /\ Len(fraudLog) >= 2
  /\ \E i \in DOMAIN fraudLog : fraudLog[i].message = "Fraud analysis failed"
  /\ fraudLog[Len(fraudLog)].message = "Fraud analysis completed"
  /\ LET h == HistoryOf(transactionHistory, "c1")
     IN /\ h # << >>
        /\ h[Len(h)].ipAddress = NoIp
        /\ h[Len(h)].paymentMethod = Undefined
        /\ \E i \in DOMAIN h : ~IsString(h[i].ipAddress)

(***************************************************************************)
(* AnalyticsProcessor                                                      *)
(*                                                                         *)
(* A quotient of two numbers is kept exact, as a fraction in lowest terms; *)
(* a date string is the number of its day.                                 *)
(***************************************************************************)
CompletedDiscriminant == "transaction_completed"

RECURSIVE GCD(_, _)
GCD(a, b) == IF b = 0 THEN a ELSE GCD(b, a % b)

\* a / b
Quotient(a, b) == LET g == GCD(a, b) IN [num |-> a \div g, den |-> b \div g]

\* q > k
Exceeds(q, k) == q.num > k * q.den

\* new Date().toISOString().split('T')[0]
Today(t) == t \div OneDay

\* `tmp_${Date.now()}`
TmpId(t) == "tmp_" \o ToString(t)

AnalyticsState ==
  [transactionAnalytics |-> transactionAnalytics,
   customerAnalytics |-> customerAnalytics]

\* Mutant of paymentMethodOf: no default for an absent payment method.
paymentMethodOfNoDefault(logData) == MetaOf(logData, "paymentMethod")

\* logData.metadata?.paymentMethod || 'unknown'
paymentMethodOf(logData) ==
  IF MetaOf(logData, "paymentMethod") = Undefined
  THEN "unknown" ELSE MetaOf(logData, "paymentMethod")

\* The TransactionAnalytics record processTransactionAttempt builds.
analyticsData(logData, t) ==
  [transactionId |-> IF "transactionId" \in DOMAIN logData
                     THEN logData.transactionId ELSE TmpId(t),
   customerId |-> logData.customerId,
   amount |-> logData.amount,
   currency |-> logData.currency,
   paymentMethod |-> paymentMethodOf(logData),
   timestamp |-> logData.timestamp,
   deviceInfo |-> [userAgent |-> MetaOf(logData, "userAgent"),
                   ipAddress |-> IpOf(logData)]]

\* Mutant of countPreference: the method is marked, not counted.
countPreferenceOnce(preferences, paymentMethod) ==
  Put(preferences, paymentMethod, 1)

\* paymentMethodPreferences[paymentMethod] =
\*   (paymentMethodPreferences[paymentMethod] || 0) + 1
countPreference(preferences, paymentMethod) ==
  Put(preferences, paymentMethod,
      (IF paymentMethod \in DOMAIN preferences
       THEN preferences[paymentMethod] ELSE 0) + 1)

\* Mutant of addToTrends: today's entry counts the attempt and leaves its
\* amount out.
addToTrendsCountOnly(trends, today, amount) ==
  IF \E i \in DOMAIN trends : trends[i].date = today
  THEN LET k == CHOOSE i \in DOMAIN trends :
                  /\ trends[i].date = today
                  /\ \A j \in 1..(i - 1) : trends[j].date # today
       IN [trends EXCEPT ![k] = [date |-> today,
                                 amount |-> @.amount,
                                 count |-> @.count + 1]]
  ELSE Append(trends, [date |-> today, amount |-> amount, count |-> 1])

\* today's entry grows, or a new entry is pushed at the end
addToTrends(trends, today, amount) ==
  IF \E i \in DOMAIN trends : trends[i].date = today
  THEN LET k == CHOOSE i \in DOMAIN trends :
                  /\ trends[i].date = today
                  /\ \A j \in 1..(i - 1) : trends[j].date # today
       IN [trends EXCEPT ![k] = [date |-> today,
                                 amount |-> @.amount + amount,
                                 count |-> @.count + 1]]
  ELSE Append(trends, [date |-> today, amount |-> amount, count |-> 1])

\* The mutant of sortByDateDescending: the entries stay as they were pushed.
keepPushOrder(trends) == trends

\* sort((a, b) => new Date(b.date).getTime() - new Date(a.date).getTime()),
\* a stable sort: an entry goes after the entries that are not older.
RECURSIVE sortByDateDescending(_)
sortByDateDescending(trends) ==
  IF trends = << >> THEN << >>
  ELSE LET sorted == sortByDateDescending(SubSeq(trends, 1, Len(trends) - 1))
           last == trends[Len(trends)]
           before == SelectSeq(sorted, LAMBDA x : x.date >= last.date)
           after == SelectSeq(sorted, LAMBDA x : x.date < last.date)
       IN before \o <<last>> \o after

\* trends.slice(0, n)
FirstN(trends, n) == SubSeq(trends, 1, IF Len(trends) < n THEN Len(trends) ELSE n)

updateCustomerAnalytics(ca, transactionData, t) ==
  LET customerId == transactionData.customerId
      existing ==
        IF customerId \in DOMAIN ca THEN ca[customerId]
        ELSE [customerId |-> customerId,
              totalTransactions |-> 0,
              totalAmount |-> 0,
              averageTransactionAmount |-> Quotient(0, 1),
              paymentMethodPreferences |-> EmptyMap,
              transactionTrends |-> << >>,
              riskProfile |-> "low",
              lastActivity |-> transactionData.timestamp]
      totalTransactions == existing.totalTransactions + 1
      totalAmount == existing.totalAmount + transactionData.amount
  IN Put(ca, customerId,
       [customerId |-> customerId,
        totalTransactions |-> totalTransactions,
        totalAmount |-> totalAmount,
        averageTransactionAmount |-> Quotient(totalAmount, totalTransactions),
        paymentMethodPreferences |->
          countPreference(existing.paymentMethodPreferences,
                          transactionData.paymentMethod),
        transactionTrends |->
          FirstN(sortByDateDescending(
                   addToTrends(existing.transactionTrends, Today(t),
                               transactionData.amount)), 30),
        riskProfile |-> existing.riskProfile,
        lastActivity |-> transactionData.timestamp])

\* Mutant of processTransactionAttempt: the trend entry is that of the
\* event's own date.
processTransactionAttemptByEventDate(A, logData, t) ==
  IF EventOf(logData) # AttemptDiscriminant THEN A
  ELSE LET data == analyticsData(logData, t)
       IN [transactionAnalytics |->
             Put(A.transactionAnalytics, data.transactionId, data),
           customerAnalytics |->
             updateCustomerAnalytics(A.customerAnalytics, data,
                                     logData.timestamp)]

\* Both clock readings of one call, Date.now() for the temporary id and
\* new Date() for today, are taken to be the same millisecond t.
processTransactionAttempt(A, logData, t) ==
  IF EventOf(logData) # AttemptDiscriminant THEN A
  ELSE LET data == analyticsData(logData, t)
       IN [transactionAnalytics |->
             Put(A.transactionAnalytics, data.transactionId, data),
           customerAnalytics |->
             updateCustomerAnalytics(A.customerAnalytics, data, t)]

RECURSIVE SumCount(_)
SumCount(trends) ==
  IF trends = << >> THEN 0 ELSE trends[1].count + SumCount(Tail(trends))

\* The riskScore calculateRiskScore adds up.
riskScore(customer) ==
  LET recentTransactions == FirstN(customer.transactionTrends, 7)
      avgDailyTransactions == Quotient(SumCount(recentTransactions), 7)
      methodCount == Cardinality(DOMAIN customer.paymentMethodPreferences)
  IN (IF Exceeds(avgDailyTransactions, 10) THEN 30 ELSE 0)
     + (IF Exceeds(customer.averageTransactionAmount, 50000) THEN 25 ELSE 0)
     + (IF methodCount > 3 THEN 20 ELSE 0)

riskTier(score) ==
  IF score > 50 THEN "high" ELSE IF score > 25 THEN "medium" ELSE "low"

calculateRiskScore(ca, customerId) ==
  IF customerId \notin DOMAIN ca THEN ca
  ELSE Put(ca, customerId,
           [ca[customerId] EXCEPT !.riskProfile = riskTier(riskScore(ca[customerId]))])

processTransactionCompletion(A, logData, t) ==
  IF EventOf(logData) # CompletedDiscriminant THEN A
  ELSE LET ta == A.transactionAnalytics
           known == /\ "transactionId" \in DOMAIN logData
                    /\ logData.transactionId \in DOMAIN ta
       IN [transactionAnalytics |->
             IF known
             THEN Put(ta, logData.transactionId,
                      [processingTime |->
                         t - ta[logData.transactionId].timestamp]
                      @@ ta[logData.transactionId])
             ELSE ta,
           customerAnalytics |->
             calculateRiskScore(A.customerAnalytics, logData.customerId)]

getCustomerAnalytics(A, customerId) ==
  IF customerId \in DOMAIN A.customerAnalytics
  THEN A.customerAnalytics[customerId] ELSE Undefined

getHighRiskCustomers(A) ==
  {A.customerAnalytics[c] : c \in {x \in DOMAIN A.customerAnalytics :
                                     A.customerAnalytics[x].riskProfile = "high"}}

(***************************************************************************)
(* Inputs of the analytics specifications.                                 *)
(***************************************************************************)
\* An attempt line without a transactionId, as the aggregator's tests give.
AnalyticsEvent(c, a, meta) ==
  [event |-> AttemptDiscriminant, customerId |-> c, amount |-> a,
   currency |-> "USD", timestamp |-> 0, metadata |-> meta]

\* Attempts of c1 with and without a payment method, one attempt of c2 that
\* carries a transactionId.
AnalyticsEvents ==
  {AnalyticsEvent("c1", e[1], [paymentMethod |-> e[2], userAgent |-> "ua1",
                               ipAddress |-> HomeIp]) :
     e \in {<<2000, "card">>, <<3000, "card">>, <<2000, "bank_transfer">>,
            <<3000, "wallet">>}}
  \cup {AnalyticsEvent("c1", 1500, [userAgent |-> "ua1"])}
  \cup {[transactionId |-> "tx1"] @@
        AnalyticsEvent("c2", 2500, [paymentMethod |-> "card"])}

AnalyticsOtherEvents ==
  {[event |-> CompletedDiscriminant, transactionId |-> "tx1",
    customerId |-> "c1", amount |-> 5000, timestamp |-> 0]}

CompletionEvent(x, c) ==
  [event |-> CompletedDiscriminant, transactionId |-> x, customerId |-> c,
   status |-> "completed"]

CompletionEvents ==
  {CompletionEvent("tx1", "c2"), CompletionEvent("tx_123456789", "c1")}

\* The day changes: the clock moves to the next midnight.
NextDay ==
  /\ Today(now) < MaxDay
  /\ now' = (Today(now) + 1) * OneDay
  /\ UNCHANGED <<billingVars, fraudVars, analyticsVars, producerVars, calls,
                 served>>

CountOf(given, e) == IF e \in DOMAIN given THEN given[e] ELSE 0

AnalyticsAttempt(logData, bound) ==
  LET A == processTransactionAttempt(AnalyticsState, logData, now)
  IN /\ served < bound
     /\ served' = served + 1
     /\ transactionAnalytics' = A.transactionAnalytics
     /\ customerAnalytics' = A.customerAnalytics
     /\ attempted' = Put(attempted, logData, CountOf(attempted, logData) + 1)
     /\ UNCHANGED <<now, billingVars, fraudVars, producerVars, calls>>

AnalyticsCompletion(logData) ==
  LET A == processTransactionCompletion(AnalyticsState, logData, now)
  IN /\ transactionAnalytics' = A.transactionAnalytics
     /\ customerAnalytics' = A.customerAnalytics
     /\ UNCHANGED <<now, attempted, served, billingVars, fraudVars,
                    producerVars, calls>>

Attempt == \E e \in AnalyticsEvents : AnalyticsAttempt(e, MaxCalls)

AttemptOther == \E e \in AnalyticsOtherEvents : AnalyticsAttempt(e, MaxCalls)

Complete == \E e \in CompletionEvents : AnalyticsCompletion(e)

NextAnalytics == NextDay \/ Attempt \/ AttemptOther \/ Complete

SpecAnalytics == InitCommon /\ [][NextAnalytics]_vars

(***************************************************************************)
(* One customer's attempts over a month and more.  The customer makes one  *)
(* attempt a day, two on some days and none on others, and the wall clock  *)
(* is set back to a day that may have been left out.  The clock counts     *)
(* from a midnight in the middle of the period: TLC's integers hold 24     *)
(* days of milliseconds, and only differences and day boundaries matter.   *)
(***************************************************************************)
FirstTrendDay == -16

TrendEvent == AnalyticsEvent("c1", 2000, [paymentMethod |-> "card"])

TrendsOf(ca, c) == IF c \in DOMAIN ca THEN ca[c].transactionTrends ELSE << >>

TrendDates(trends) == {trends[i].date : i \in DOMAIN trends}

\* The days with two attempts, and the days that may pass without one.
ExtraDays == {FirstTrendDay, 14}

SkipDays == {-13, 2}

CountToday ==
  LET trends == TrendsOf(customerAnalytics, "c1")
      today == {i \in DOMAIN trends : trends[i].date = Today(now)}
  IN IF today = {} THEN 0 ELSE trends[CHOOSE i \in today : TRUE].count

TrendAttempt ==
  /\ \/ CountToday = 0
     \/ CountToday = 1 /\ Today(now) \in ExtraDays
  /\ AnalyticsAttempt(TrendEvent, 2 * (MaxTrendDay + 1))

TrendDay ==
  /\ Today(now) < MaxTrendDay
  /\ CountToday > 0 \/ Today(now) \in SkipDays
  /\ now' = (Today(now) + 1) * OneDay
  /\ UNCHANGED <<billingVars, fraudVars, analyticsVars, producerVars, calls,
                 served>>

\* The wall clock is corrected backwards.
ClockSetBack ==
  /\ Today(now) = 4
  /\ now' = 2 * OneDay
  /\ UNCHANGED <<billingVars, fraudVars, analyticsVars, producerVars, calls,
                 served>>

NextTrends == TrendAttempt \/ TrendDay \/ ClockSetBack

InitTrends == now = FirstTrendDay * OneDay /\ InitStores

SpecTrends == InitTrends /\ [][NextTrends]_vars

\* One customer's attempts whose own timestamps are of two days, handled on
\* either day.
BucketEvents ==
  {[AnalyticsEvent("c1", a, [paymentMethod |-> "card"])
      EXCEPT !.timestamp = ts] : a \in {2000, 3000}, ts \in {0, OneDay}}

BucketAttempt == \E e \in BucketEvents : AnalyticsAttempt(e, MaxCalls)

NextBucketing == NextDay \/ BucketAttempt

SpecBucketing == InitCommon /\ [][NextBucketing]_vars

\* null, for a metadata: a value without properties, of which ?. reads
\* undefined.
Null == << >>

\* One customer's attempts without metadata, with null for metadata, with
\* metadata that has no paymentMethod, and with a payment method.
AbsentMethodEvents ==
  {[event |-> AttemptDiscriminant, customerId |-> "c1", amount |-> 5000,
    currency |-> "USD", timestamp |-> 0],
   AnalyticsEvent("c1", 5000, Null),
   AnalyticsEvent("c1", 5000, [userAgent |-> "ua1"]),
   AnalyticsEvent("c1", 5000, [paymentMethod |-> "card"])}

AbsentMethodAttempt ==
  \E e \in AbsentMethodEvents : AnalyticsAttempt(e, MaxCalls)

NextAbsentMethod == NextDay \/ AbsentMethodAttempt

SpecAbsentMethod == InitCommon /\ [][NextAbsentMethod]_vars

\* One customer's attempts of 60000 over four payment methods.
RiskEvents ==
  {AnalyticsEvent("c1", 60000, [paymentMethod |-> m]) :
     m \in {"method_0", "method_1", "method_2", "method_3"}}

RiskAttempt == \E e \in RiskEvents : AnalyticsAttempt(e, MaxRisk)

RiskComplete == AnalyticsCompletion(CompletionEvent("tx_123456789", "c1"))

NextRisk == NextDay \/ RiskAttempt \/ RiskComplete

SpecRisk == InitCommon /\ [][NextRisk]_vars

\* The same attempts, as few as move the riskProfile: four of them.
TotalsAttempt == \E e \in RiskEvents : AnalyticsAttempt(e, MaxTotals)

NextTotals == NextDay \/ TotalsAttempt \/ RiskComplete

SpecTotals == InitCommon /\ [][NextTotals]_vars

(***************************************************************************)
(* Analytics claims                                                        *)
(***************************************************************************)
\* The attempt events given so far for customer c.
AttemptsOf(c) ==
  {e \in DOMAIN attempted : /\ EventOf(e) = AttemptDiscriminant
                            /\ e.customerId = c}

RECURSIVE CountGiven(_)
CountGiven(events) ==
  IF events = {} THEN 0
  ELSE LET e == CHOOSE x \in events : TRUE
       IN attempted[e] + CountGiven(events \ {e})

RECURSIVE AmountGiven(_)
AmountGiven(events) ==
  IF events = {} THEN 0
  ELSE LET e == CHOOSE x \in events : TRUE
       IN attempted[e] * e.amount + AmountGiven(events \ {e})

GivenMethod(e) ==
  IF "paymentMethod" \in DOMAIN e.metadata THEN e.metadata.paymentMethod
  ELSE "unknown"

\* C6: a customer's CustomerAnalytics counts the attempt events handled for
\* that customer, sums their amounts, holds their arithmetic mean, and
\* counts under each payment method the attempts made with it.
C6_TotalsMatchAttempts ==
  \A c \in Customers :
    IF AttemptsOf(c) = {} THEN c \notin DOMAIN customerAnalytics
    ELSE /\ c \in DOMAIN customerAnalytics
         /\ LET a == customerAnalytics[c]
                n == CountGiven(AttemptsOf(c))
                total == AmountGiven(AttemptsOf(c))
            IN /\ a.totalTransactions = n
               /\ a.totalAmount = total
               /\ a.averageTransactionAmount.num * n
                    = total * a.averageTransactionAmount.den
               /\ DOMAIN a.paymentMethodPreferences
                    = {GivenMethod(e) : e \in AttemptsOf(c)}
               /\ \A m \in DOMAIN a.paymentMethodPreferences :
                    a.paymentMethodPreferences[m] =
                      CountGiven({e \in AttemptsOf(c) : GivenMethod(e) = m})

\* C6 witness: four attempts of c1 with methods card, card, bank_transfer
\* and wallet have been counted as {card: 2, bank_transfer: 1, wallet: 1}.
C6_Witness ==
  /\ "c1" \in DOMAIN customerAnalytics
  /\ customerAnalytics["c1"].totalTransactions = 4
  /\ customerAnalytics["c1"].totalAmount = 10000
  /\ customerAnalytics["c1"].averageTransactionAmount = Quotient(2500, 1)
  /\ customerAnalytics["c1"].paymentMethodPreferences =
       [m \in Methods |-> IF m = "card" THEN 2 ELSE 1]

\* The tier the claim gives a customer: 30 for a mean daily count above 10
\* over the most recent (up to 7) trend entries, 25 for a mean amount above
\* 50000, 20 for more than 3 payment methods.
ClaimedScore(customer) ==
  LET recent == FirstN(customer.transactionTrends, 7)
  IN (IF SumCount(recent) > 10 * Len(recent) THEN 30 ELSE 0)
     + (IF customer.totalAmount > 50000 * customer.totalTransactions
        THEN 25 ELSE 0)
     + (IF Cardinality(DOMAIN customer.paymentMethodPreferences) > 3
        THEN 20 ELSE 0)

ClaimedTier(customer) ==
  IF ClaimedScore(customer) > 50 THEN "high"
  ELSE IF ClaimedScore(customer) > 25 THEN "medium" ELSE "low"

\* The oldest of a set of dates.
Oldest(dates) == CHOOSE d \in dates : \A other \in dates : d <= other

\* C24: every customer's transactionTrends has at most 30 entries in
\* strictly descending order of date, hence one entry per day at most; an
\* attempt on a day that has no entry, made when there are 30 entries,
\* leaves the 31 days less the oldest of them.
C24_TrendWindow ==
  /\ [](\A c \in DOMAIN customerAnalytics :
          LET trends == customerAnalytics[c].transactionTrends
          IN /\ Len(trends) <= 30
             /\ \A i \in 1..(Len(trends) - 1) :
                  trends[i].date > trends[i + 1].date)
  /\ [][(/\ AnalyticsAttempt(TrendEvent, 2 * (MaxTrendDay + 1))
         /\ Len(TrendsOf(customerAnalytics, "c1")) = 30
         /\ Today(now) \notin TrendDates(TrendsOf(customerAnalytics, "c1"))) =>
          LET days == TrendDates(TrendsOf(customerAnalytics, "c1"))
                        \cup {Today(now)}
          IN TrendDates(TrendsOf(customerAnalytics', "c1")) =
               days \ {Oldest(days)}
       ]_vars

\* C24 witness: thirty entries, the first day's gone, a day that was first
\* left out and then made up for after the clock was set back among them,
\* and a day with two attempts.
C24_Witness ==
  LET trends == TrendsOf(customerAnalytics, "c1")
  IN /\ Len(trends) = 30
     /\ FirstTrendDay \notin TrendDates(trends)
     /\ 2 \in TrendDates(trends)
     /\ -13 \notin TrendDates(trends)
     /\ Today(now) = 15
     /\ trends[1].date = 15
     /\ \E i \in DOMAIN trends : trends[i].date = 14 /\ trends[i].count = 2

\* The entry of a day in a trend window, or one that counts nothing.
TrendOn(trends, day) ==
  IF day \in TrendDates(trends)
  THEN trends[CHOOSE i \in DOMAIN trends : trends[i].date = day]
  ELSE [date |-> day, amount |-> 0, count |-> 0]

\* C32: an attempt adds one to the count and its amount to the amount of
\* the trend entry of the day on which it is handled, creating the entry if
\* there was none, whatever the event's own timestamp, and leaves the
\* entries of the other days as they were; there is one entry per day.
C32_TrendIsKeyedByProcessingDay ==
  [][\A e \in BucketEvents :
       AnalyticsAttempt(e, MaxCalls) =>
         LET old == TrendsOf(customerAnalytics, "c1")
             new == TrendsOf(customerAnalytics', "c1")
         IN /\ TrendDates(new) = TrendDates(old) \cup {Today(now)}
            /\ Len(new) = Cardinality(TrendDates(new))
            /\ TrendOn(new, Today(now)).count
                 = TrendOn(old, Today(now)).count + 1
            /\ TrendOn(new, Today(now)).amount
                 = TrendOn(old, Today(now)).amount + e.amount
            /\ \A day \in TrendDates(old) \ {Today(now)} :
                 TrendOn(new, day) = TrendOn(old, day)
    ]_vars

\* C32 witness: two attempts, one timestamped on day 0 and one on day 1,
\* both handled on day 0, are one entry of day 0 with count 2 and the sum
\* of the amounts.
C32_Witness ==
  /\ DOMAIN attempted =
       {[AnalyticsEvent("c1", 2000, [paymentMethod |-> "card"])
           EXCEPT !.timestamp = 0],
        [AnalyticsEvent("c1", 3000, [paymentMethod |-> "card"])
           EXCEPT !.timestamp = OneDay]}
  /\ \A e \in DOMAIN attempted : attempted[e] = 1
  /\ TrendsOf(customerAnalytics, "c1") =
       << [date |-> 0, amount |-> 5000, count |-> 2] >>

\* The analytics records of customer c that carry a processingTime.
Stamped(ta, c) ==
  {x \in DOMAIN ta : /\ ta[x].customerId = c
                     /\ "processingTime" \in DOMAIN ta[x]}

\* C33: when a completion event with the gateway's transactionId is handled
\* for a customer whose attempt was recorded, an analytics record of that
\* customer carries a processingTime.
C33_CompletionStampsTheAttempt ==
  [][\A e \in CompletionEvents :
       (AnalyticsCompletion(e) /\ AttemptsOf(e.customerId) # {}) =>
         Stamped(transactionAnalytics', e.customerId) # {}
    ]_vars

\* The attempts that carry no payment method.
WithoutMethod ==
  {e \in AbsentMethodEvents :
     \/ "metadata" \notin DOMAIN e
     \/ "paymentMethod" \notin DOMAIN e.metadata}

\* What a CustomerAnalytics map holds for customer c, zero and an empty
\* histogram if it has no entry.
TotalOf(ca, c) == IF c \in DOMAIN ca THEN ca[c].totalTransactions ELSE 0

PreferencesOf(ca, c) ==
  IF c \in DOMAIN ca THEN ca[c].paymentMethodPreferences ELSE EmptyMap

\* C34: an attempt without a payment method (no metadata, null metadata, or
\* metadata without the field) is recorded: the customer's
\* totalTransactions grows by one, paymentMethodPreferences['unknown']
\* grows by one, and no other entry of the histogram changes or appears.
C34_AbsentMethodCountsAsUnknown ==
  [][\A e \in WithoutMethod :
       AnalyticsAttempt(e, MaxCalls) =>
         LET old == PreferencesOf(customerAnalytics, "c1")
             new == PreferencesOf(customerAnalytics', "c1")
         IN /\ TotalOf(customerAnalytics', "c1")
                 = TotalOf(customerAnalytics, "c1") + 1
            /\ DOMAIN new = DOMAIN old \cup {"unknown"}
            /\ new["unknown"] = CountOf(old, "unknown") + 1
            /\ \A m \in DOMAIN old \ {"unknown"} : new[m] = old[m]
            /\ TmpId(now) \in DOMAIN transactionAnalytics'
            /\ transactionAnalytics'[TmpId(now)].paymentMethod = "unknown"
    ]_vars

\* C34 witness: one attempt of each kind has been handled, and the three
\* without a payment method are counted under 'unknown'.
C34_Witness ==
  /\ DOMAIN attempted = AbsentMethodEvents
  /\ \A e \in AbsentMethodEvents : attempted[e] = 1
  /\ PreferencesOf(customerAnalytics, "c1") =
       [m \in {"unknown", "card"} |-> IF m = "unknown" THEN 3 ELSE 1]

\* C40: as long as no trend entry has been dropped, the counts of a
\* customer's transactionTrends add up to totalTransactions and their
\* amounts to totalAmount after every attempt; handling a completion event
\* changes nothing of a CustomerAnalytics but its riskProfile.
C40_TrendsAddUpToTotals ==
  /\ [](\A c \in DOMAIN customerAnalytics :
          /\ SumCount(customerAnalytics[c].transactionTrends)
               = customerAnalytics[c].totalTransactions
          /\ SumAmount(customerAnalytics[c].transactionTrends)
               = customerAnalytics[c].totalAmount)
  /\ [][RiskComplete =>
          /\ DOMAIN customerAnalytics' = DOMAIN customerAnalytics
          /\ \A c \in DOMAIN customerAnalytics :
               [customerAnalytics'[c] EXCEPT !.riskProfile = "low"]
                 = [customerAnalytics[c] EXCEPT !.riskProfile = "low"]
       ]_vars

\* C40 witness: attempts on two days add up to the totals, and a completion
\* event has moved the riskProfile.
C40_Witness ==
  /\ "c1" \in DOMAIN customerAnalytics
  /\ Len(customerAnalytics["c1"].transactionTrends) = 2
  /\ \A i \in 1..2 : customerAnalytics["c1"].transactionTrends[i].count >= 2
  /\ customerAnalytics["c1"].totalTransactions
       = SumCount(customerAnalytics["c1"].transactionTrends)
  /\ customerAnalytics["c1"].totalAmount
       = SumAmount(customerAnalytics["c1"].transactionTrends)
  /\ customerAnalytics["c1"].riskProfile # "low"

\* C8: a completion event sets the customer's riskProfile to the tier of
\* the score that averages the daily count over the recent trend entries;
\* 12 attempts of 60000 on one day over 4 methods are 'high' and returned
\* by getHighRiskCustomers.
C8_RiskTierAveragesRecentDays ==
  [][(RiskComplete /\ "c1" \in DOMAIN customerAnalytics) =>
       /\ customerAnalytics'["c1"].riskProfile
            = ClaimedTier(customerAnalytics["c1"])
       /\ ClaimedTier(customerAnalytics["c1"]) = "high" =>
            customerAnalytics'["c1"] \in getHighRiskCustomers(AnalyticsState)']_vars

(***************************************************************************)
(* The three aggregators side by side, each a subscriber of the feed.      *)
(* calls lists, per aggregator, the events it was given and the clock      *)
(* reading of each call.                                                   *)
(***************************************************************************)
Received(cs, aggregator) ==
  IF aggregator \in DOMAIN cs THEN cs[aggregator] ELSE << >>

FeedAttempts ==
  {AttemptEvent("c1", a, 0, "card", HomeIp, "ua1") : a \in {5000, 600000}}

FeedCompletions == {CompletionEvent("tx1", "c1")}

FeedSuccesses ==
  {SuccessEvent("tx1", "c1", 4000), SuccessEvent("tx2", "c1", 3000)}

Noted(aggregator, logData) ==
  /\ served < MaxCalls
  /\ served' = served + 1
  /\ calls' = Put(calls, aggregator,
                  Append(Received(calls, aggregator), <<logData, now>>))

FeedToFraud(logData) ==
  /\ Noted("fraud", logData)
  /\ LET F == analyzeTransaction(FraudState, logData, now,
                FreshDraws(DrawnSoFar(FraudState),
                           DrawsNeeded(FraudState, logData)))
     IN /\ fraudAlerts' = F.fraudAlerts
        /\ customerProfiles' = F.customerProfiles
        /\ transactionHistory' = F.transactionHistory
        /\ fraudLog' = F.fraudLog
  /\ UNCHANGED <<now, billingVars, analyticsVars, producerVars>>

\* Mutant of FeedToAnalytics: an attempt of a customer the fraud aggregator
\* has not seen is dropped.
FeedToAnalyticsAfterFraud(logData) ==
  /\ Noted("analytics", logData)
  /\ LET A == IF EventOf(logData) = AttemptDiscriminant
              THEN IF logData.customerId \in DOMAIN transactionHistory
                   THEN processTransactionAttempt(AnalyticsState, logData, now)
                   ELSE AnalyticsState
              ELSE processTransactionCompletion(AnalyticsState, logData, now)
     IN /\ transactionAnalytics' = A.transactionAnalytics
        /\ customerAnalytics' = A.customerAnalytics
  /\ UNCHANGED <<now, attempted, billingVars, fraudVars, producerVars>>

\* An attempt goes to processTransactionAttempt, a completion to
\* processTransactionCompletion.
FeedToAnalytics(logData) ==
  /\ Noted("analytics", logData)
  /\ LET A == IF EventOf(logData) = AttemptDiscriminant
              THEN processTransactionAttempt(AnalyticsState, logData, now)
              ELSE processTransactionCompletion(AnalyticsState, logData, now)
     IN /\ transactionAnalytics' = A.transactionAnalytics
        /\ customerAnalytics' = A.customerAnalytics
  /\ UNCHANGED <<now, attempted, billingVars, fraudVars, producerVars>>

FeedToBilling(logData) ==
  /\ Noted("billing", logData)
  /\ LET B == processTransactionSuccess(BillingState, logData, now)
     IN /\ billingRecords' = B.billingRecords
        /\ customerBilling' = B.customerBilling
        /\ billingLog' = B.billingLog
  /\ UNCHANGED <<now, fraudVars, analyticsVars, producerVars>>

FraudSubscriber == \E e \in FeedAttempts : FeedToFraud(e)

AnalyticsSubscriber ==
  \E e \in FeedAttempts \cup FeedCompletions : FeedToAnalytics(e)

BillingSubscriber == \E e \in FeedSuccesses : FeedToBilling(e)

NextSubscribers ==
  Tick \/ FraudSubscriber \/ AnalyticsSubscriber \/ BillingSubscriber

SpecSubscribers == InitCommon /\ [][NextSubscribers]_vars

\* Each aggregator's state after the calls seq, made on its own.
RECURSIVE AloneFraud(_)
AloneFraud(seq) ==
  IF seq = << >>
  THEN [fraudAlerts |-> EmptyMap, customerProfiles |-> EmptyMap,
        transactionHistory |-> EmptyMap, fraudLog |-> << >>]
  ELSE LET F == AloneFraud(SubSeq(seq, 1, Len(seq) - 1))
           call == seq[Len(seq)]
       IN analyzeTransaction(F, call[1], call[2],
            FreshDraws(DrawnSoFar(F), DrawsNeeded(F, call[1])))

RECURSIVE AloneAnalytics(_)
AloneAnalytics(seq) ==
  IF seq = << >>
  THEN [transactionAnalytics |-> EmptyMap, customerAnalytics |-> EmptyMap]
  ELSE LET A == AloneAnalytics(SubSeq(seq, 1, Len(seq) - 1))
           call == seq[Len(seq)]
       IN IF EventOf(call[1]) = AttemptDiscriminant
          THEN processTransactionAttempt(A, call[1], call[2])
          ELSE processTransactionCompletion(A, call[1], call[2])

RECURSIVE AloneBilling(_)
AloneBilling(seq) ==
  IF seq = << >>
  THEN [billingRecords |-> EmptyMap, customerBilling |-> EmptyMap,
        billingLog |-> << >>]
  ELSE LET B == AloneBilling(SubSeq(seq, 1, Len(seq) - 1))
           call == seq[Len(seq)]
       IN processTransactionSuccess(B, call[1], call[2])

IsolationIds == [c1 |-> "tx1", c2 |-> "tx2"]

\* The attempts carry the transaction's id, which processTransactionAttempt
\* takes as the key of its record when it is there.
IsolationAttempts ==
  {[transactionId |-> IsolationIds[c]]
     @@ AttemptEvent(c, 600000, 0, "card", HomeIp, "ua1") : c \in Customers}

IsolationCompletions == {CompletionEvent(IsolationIds[c], c) : c \in Customers}

IsolationSuccesses == {SuccessEvent(IsolationIds[c], c, 6000) : c \in Customers}

IsolatedFraud(c) ==
  \E e \in {x \in IsolationAttempts : x.customerId = c} :
    \E rnds \in [1..DrawsNeeded(FraudState, e) -> DrawValues] :
      FraudAnalyzeDrawn(e, rnds)

IsolatedAttempt(c) ==
  \E e \in {x \in IsolationAttempts : x.customerId = c} :
    AnalyticsAttempt(e, MaxAttempts)

IsolatedCompletion(c) ==
  \E e \in {x \in IsolationCompletions : x.customerId = c} :
    AnalyticsCompletion(e)

IsolatedSuccess(c) ==
  \E e \in {x \in IsolationSuccesses : x.customerId = c} : BillingSuccess(e)

\* Some aggregator handles an event of customer c.
HandledFor(c) ==
  \/ IsolatedFraud(c)
  \/ IsolatedAttempt(c)
  \/ IsolatedCompletion(c)
  \/ IsolatedSuccess(c)

NextIsolation == Tick \/ \E c \in Customers : HandledFor(c)

SpecIsolation == InitCommon /\ [][NextIsolation]_vars

\* The part of a map that belongs to customer c: its entry in a map keyed
\* by customerId, its entries in a map of records with a customerId.
EntryOf(map, c) == [x \in DOMAIN map \cap {c} |-> map[x]]

EntriesOf(map, c) ==
  [x \in {y \in DOMAIN map : map[y].customerId = c} |-> map[x]]

\* The state that belongs to customer c.
OwnedBy(c) ==
  [history |-> EntryOf(transactionHistory, c),
   alerts |-> EntriesOf(fraudAlerts, c),
   profile |-> EntryOf(customerProfiles, c),
   analytics |-> EntryOf(customerAnalytics, c),
   accumulator |-> EntryOf(customerBilling, c),
   records |-> EntriesOf(billingRecords, c)]

\* C36: handling an event of one customer, at any aggregator, leaves the
\* state of every other customer as it was: fraud history, alerts and
\* profile, CustomerAnalytics, billing accumulator and billing records.
C36_OtherCustomersAreUntouched ==
  [][\A a \in Customers :
       HandledFor(a) => \A b \in Customers \ {a} : OwnedBy(b)' = OwnedBy(b)
    ]_vars

(***************************************************************************)
(* Discriminant gating: every entry point is handed events of every kind,  *)
(* the kind it consumes among them.                                        *)
(***************************************************************************)
GateEvents ==
  {[transactionId |-> "tx1"]
     @@ AttemptEvent("c1", 5000, 0, "card", HomeIp, "ua1"),
   AttemptEvent("c1", 600000, 0, "card", HomeIp, "ua1"),
   CompletionEvent("tx1", "c1"),
   SuccessEvent("tx1", "c1", 4000),
   [event |-> "some_other_event", transactionId |-> "tx1",
    customerId |-> "c1", amount |-> 5000, timestamp |-> 0],
   [transactionId |-> "tx1", customerId |-> "c1", amount |-> 5000,
    timestamp |-> 0]}

GateFraud == \E e \in GateEvents : FraudAnalyze(e)

GateAttempt == \E e \in GateEvents : AnalyticsAttempt(e, MaxAttempts)

GateCompletion == \E e \in GateEvents : AnalyticsCompletion(e)

GateSuccess == \E e \in GateEvents : BillingSuccess(e)

NextGating == Tick \/ GateFraud \/ GateAttempt \/ GateCompletion \/ GateSuccess

SpecGating == InitCommon /\ [][NextGating]_vars

LoggerLine(level, message, metadata, t) ==
  metadata @@ [level |-> level, service |-> "payment-service",
               message |-> message, timestamp |-> t]

(***************************************************************************)
(* TransactionHandler                                                      *)
(***************************************************************************)
\* !value for a string property: true when it is absent or empty.
Falsy(value) == value = Undefined \/ value = ""

\* The mutant of validateTransaction: the currency is tested first and the
\* amount last.
validateTransactionCurrencyFirst(options) ==
  IF \/ Falsy(FieldOf(options, "currency"))
     \/ Len(options.currency) # 3
  THEN "Valid currency code is required"
  ELSE IF Falsy(FieldOf(options, "customerId")) THEN "Customer ID is required"
  ELSE IF options.amount <= 0 THEN "Transaction amount must be positive"
  ELSE "ok"

\* The message of the error validateTransaction throws, or "ok".
validateTransaction(options) ==
  IF options.amount <= 0 THEN "Transaction amount must be positive"
  ELSE IF Falsy(FieldOf(options, "customerId")) THEN "Customer ID is required"
  ELSE IF \/ Falsy(FieldOf(options, "currency"))
          \/ Len(options.currency) # 3
       THEN "Valid currency code is required"
  ELSE "ok"

\* An object literal in which a property whose value is undefined is left
\* out, as JSON.stringify leaves it out of the line.
Defined(obj) == [k \in {x \in DOMAIN obj : obj[x] # Undefined} |-> obj[k]]

logTransactionAttempt(options, context, t) ==
  LoggerLine("info", "AUDIT: Transaction attempt",
    [event |-> "transaction_attempt",
     customerId |-> options.customerId,
     amount |-> options.amount,
     currency |-> options.currency,
     timestamp |-> context.timestamp,
     metadata |-> Defined([paymentMethod |-> options.paymentMethod,
                           ipAddress |-> context.ipAddress,
                           userAgent |-> context.userAgent])], t)

\* The mutant of handleTransactionResult: the success line is written
\* whatever the status.
handleTransactionResultAlways(result, t) ==
  << LoggerLine("info", "AUDIT: Transaction completed",
       [event |-> "transaction_completed",
        transactionId |-> result.id,
        customerId |-> result.customerId,
        amount |-> result.amount,
        status |-> result.status,
        processingFee |-> result.processingFee,
        timestamp |-> t], t),
     LoggerLine("info", "SIDE_EFFECT: transaction_success",
       [transactionId |-> result.id,
        customerId |-> result.customerId,
        amount |-> result.amount,
        currency |-> result.currency,
        paymentMethod |-> result.paymentMethod,
        processingFee |-> result.processingFee,
        metadata |-> result.metadata], t) >>

\* The lines handleTransactionResult writes for a gateway result.
handleTransactionResult(result, t) ==
  << LoggerLine("info", "AUDIT: Transaction completed",
       [event |-> "transaction_completed",
        transactionId |-> result.id,
        customerId |-> result.customerId,
        amount |-> result.amount,
        status |-> result.status,
        processingFee |-> result.processingFee,
        timestamp |-> t], t) >>
  \o (IF result.status = "completed"
      THEN << LoggerLine("info", "SIDE_EFFECT: transaction_success",
                [transactionId |-> result.id,
                 customerId |-> result.customerId,
                 amount |-> result.amount,
                 currency |-> result.currency,
                 paymentMethod |-> result.paymentMethod,
                 processingFee |-> result.processingFee,
                 metadata |-> result.metadata], t) >>
      ELSE << >>)

\* The request handed to PayFlexClient.processTransaction.
TransactionData(options, context, t) ==
  [amount |-> options.amount,
   currency |-> options.currency,
   customerId |-> options.customerId,
   paymentMethod |-> options.paymentMethod,
   metadata |-> [processingTimestamp |-> t, context |-> context]]

(***************************************************************************)
(* Inputs of the producer: the requests of the integration tests, one with *)
(* an amount validation rejects, and the gateway's answers.                *)
(***************************************************************************)
ProducerAmounts == {5000, 7500, 0}

ProducerOptions ==
  {[amount |-> a, currency |-> "USD", customerId |-> "c1",
    paymentMethod |-> "card", sendCustomerSummary |-> FALSE] :
     a \in ProducerAmounts}

ProducerContext(t) ==
  [timestamp |-> t, userAgent |-> "ua1", ipAddress |-> "192.168.1.100"]

\* The ids the gateway gives its results, one per call.
GatewayId(k) == IF k = 1 THEN "tx1" ELSE IF k = 2 THEN "tx2"
                ELSE IF k = 3 THEN "tx3" ELSE "tx4"

\* round(amount * 0.029 + 30): 175 for 5000, as the spec's scenario has it.
GatewayFee(amount) == (amount * 29 + 30000 + 500) \div 1000

\* The customerSummary of SETUP.md's example response.
CustomerSummary ==
  [totalTransactions |-> 15, totalAmount |-> 125000, loyaltyPoints |-> 50,
   riskScore |-> 23, preferredPaymentMethod |-> "card"]

\* The gateway's result; it carries a customerSummary when the request asks
\* for one.
GatewayResult(k, data, status) ==
  LET result == [id |-> GatewayId(k),
                 customerId |-> data.customerId,
                 amount |-> data.amount,
                 currency |-> data.currency,
                 paymentMethod |-> data.paymentMethod,
                 status |-> status,
                 processingFee |-> GatewayFee(data.amount),
                 metadata |-> data.metadata]
  IN IF "sendCustomerSummary" \in DOMAIN data /\ data.sendCustomerSummary
     THEN [customerSummary |-> CustomerSummary] @@ result
     ELSE result

GatewayStatuses == {"completed", "failed"}

\* processTransaction up to the await of the gateway call.
StartTransaction(options) ==
  LET k == Cardinality(DOMAIN returned) + Cardinality(DOMAIN calls) + 1
      context == ProducerContext(now)
      starting == LoggerLine("info", "Starting transaction processing",
                    Present(options, {"customerId", "amount", "currency"}),
                    now)
      verdict == validateTransaction(options)
  IN /\ k <= MaxTransactions
     /\ IF verdict # "ok"
        THEN /\ console' = console \o
                  << starting,
                     LoggerLine("error", "Transaction processing failed",
                       [error |-> verdict,
                        customerId |-> options.customerId,
                        amount |-> options.amount], now) >>
             /\ returned' = Put(returned, k, [rejected |-> verdict])
             /\ calls' = calls
        ELSE /\ console' = console \o
                  << starting, logTransactionAttempt(options, context, now) >>
             /\ calls' = Put(calls, k,
                             [startTime |-> now,
                              options |-> options,
                              data |-> TransactionData(options, context, now)])
             /\ returned' = returned
     /\ UNCHANGED <<now, billingVars, fraudVars, analyticsVars, delivered,
                    served>>

\* The gateway answers: handleTransactionResult, the closing line, return.
GatewayReturns(k, status) ==
  /\ k \in DOMAIN calls
  /\ LET result == GatewayResult(k, calls[k].data, status)
     IN /\ console' = console \o handleTransactionResult(result, now) \o
             << LoggerLine("info", "Transaction completed successfully",
                  [transactionId |-> result.id,
                   processingTime |-> now - calls[k].startTime,
                   customerId |-> result.customerId], now) >>
        /\ returned' = Put(returned, k, [result |-> result])
  /\ calls' = Del(calls, k)
  /\ UNCHANGED <<now, billingVars, fraudVars, analyticsVars, delivered,
                 served>>

\* The mutant of GatewayThrows: the catch block rethrows without logging.
GatewayThrowsUnlogged(k) ==
  /\ k \in DOMAIN calls
  /\ returned' = Put(returned, k, [rejected |-> "gateway error"])
  /\ calls' = Del(calls, k)
  /\ UNCHANGED <<now, billingVars, fraudVars, analyticsVars, console,
                 delivered, served>>

\* The gateway call fails: the catch block logs and rethrows.
GatewayThrows(k) ==
  /\ k \in DOMAIN calls
  /\ console' = console \o
       << LoggerLine("error", "Transaction processing failed",
            [error |-> "gateway error",
             customerId |-> calls[k].data.customerId,
             amount |-> calls[k].data.amount], now) >>
  /\ returned' = Put(returned, k, [rejected |-> "gateway error"])
  /\ calls' = Del(calls, k)
  /\ UNCHANGED <<now, billingVars, fraudVars, analyticsVars, delivered,
                 served>>

\* The subscriber of the integration tests: a console line whose message is
\* 'SIDE_EFFECT: transaction_success' is handed to BillingProcessor as it
\* was written.
DeliverSuccess(i) ==
  /\ i \in 1..Len(console)
  /\ i \notin delivered
  /\ console[i].message = SuccessDiscriminant
  /\ delivered' = delivered \cup {i}
  /\ LET B == processTransactionSuccess(BillingState, console[i], now)
     IN /\ billingRecords' = B.billingRecords
        /\ customerBilling' = B.customerBilling
        /\ billingLog' = B.billingLog
  /\ UNCHANGED <<now, fraudVars, analyticsVars, console, returned, calls,
                 served>>

Begin == \E o \in ProducerOptions : StartTransaction(o)

Respond == \E k \in DOMAIN calls, st \in GatewayStatuses : GatewayReturns(k, st)

Fail == \E k \in DOMAIN calls : GatewayThrows(k)

Deliver == \E i \in 1..Len(console) : DeliverSuccess(i)

NextProducer == Tick \/ Begin \/ Respond \/ Fail \/ Deliver

SpecProducer == InitCommon /\ [][NextProducer]_vars

(***************************************************************************)
(* Producer claims.  The events are told apart by the message of their     *)
(* line: the success line carries no event property.                       *)
(***************************************************************************)
AttemptMessage == "AUDIT: Transaction attempt"

CompletedMessage == "AUDIT: Transaction completed"

IsEventLine(line) ==
  line.message \in {AttemptMessage, CompletedMessage, SuccessDiscriminant}

\* The messages of the event lines among lines, in order.
EventsIn(lines) ==
  LET events == SelectSeq(lines, IsEventLine)
  IN [i \in 1..Len(events) |-> events[i].message]

\* The lines a step added to the console.
NewConsoleLines == SubSeq(console', Len(console) + 1, Len(console'))

\* How many lines with this message the console holds for a transaction.
LinesOf(message, transactionId) ==
  Cardinality({i \in DOMAIN console :
                 /\ console[i].message = message
                 /\ console[i].transactionId = transactionId})

AttemptLines == {i \in DOMAIN console : console[i].message = AttemptMessage}

\* The calls that passed validation: at the gateway, or back from it.
PassedValidation ==
  DOMAIN calls \cup
  {k \in DOMAIN returned :
     "result" \in DOMAIN returned[k] \/ returned[k].rejected = "gateway error"}

\* C18, for a call k that passes validation.  The step that writes its
\* attempt event writes no other event and is the step that hands the
\* request to the gateway, not a later one.  The completed event is written
\* by the step in which the gateway's response arrives, first, and is
\* followed by the success event exactly when the status is 'completed'; a
\* gateway failure writes no event.  No other step writes an event, and the
\* console holds one attempt event per such call and at most one completed
\* and one success event per transaction.
C18_ProducerEventOrder ==
  /\ [](/\ Cardinality(AttemptLines) = Cardinality(PassedValidation)
        /\ \A k \in 1..MaxTransactions :
             /\ LinesOf(CompletedMessage, GatewayId(k)) <= 1
             /\ LinesOf(SuccessDiscriminant, GatewayId(k))
                  <= LinesOf(CompletedMessage, GatewayId(k)))
  /\ [][/\ \A o \in ProducerOptions :
             (StartTransaction(o) /\ validateTransaction(o) = "ok") =>
               LET k == Cardinality(DOMAIN returned)
                          + Cardinality(DOMAIN calls) + 1
               IN /\ k \notin DOMAIN calls
                  /\ EventsIn(NewConsoleLines) = << AttemptMessage >>
                  /\ k \in DOMAIN calls'
        /\ \A k \in DOMAIN calls, st \in GatewayStatuses :
             GatewayReturns(k, st) =>
               /\ EventsIn(NewConsoleLines) =
                    IF st = "completed"
                    THEN << CompletedMessage, SuccessDiscriminant >>
                    ELSE << CompletedMessage >>
               /\ \A i \in 1..Len(EventsIn(NewConsoleLines)) :
                    NewConsoleLines[i].transactionId = GatewayId(k)
        /\ \A k \in DOMAIN calls :
             GatewayThrows(k) => EventsIn(NewConsoleLines) = << >>
        /\ EventsIn(NewConsoleLines) # << >> =>
             \/ \E o \in ProducerOptions : StartTransaction(o)
             \/ \E k \in DOMAIN calls, st \in GatewayStatuses :
                  GatewayReturns(k, st)
       ]_vars

\* C18 witness: one call came back completed and one failed; the console
\* holds attempt, completed, success for the first and attempt, completed
\* for the second.
C18_Witness ==
  /\ DOMAIN returned = {1, 2}
  /\ "result" \in DOMAIN returned[1]
  /\ returned[1].result.status = "completed"
  /\ "result" \in DOMAIN returned[2]
  /\ returned[2].result.status = "failed"
  /\ Cardinality(AttemptLines) = 2
  /\ LinesOf(CompletedMessage, "tx1") = 1
  /\ LinesOf(SuccessDiscriminant, "tx1") = 1
  /\ LinesOf(CompletedMessage, "tx2") = 1
  /\ LinesOf(SuccessDiscriminant, "tx2") = 0

\* The gateway settles every request handed to it: the promise awaited at
\* `await this.payflexClient.processTransaction(...)` is fulfilled or
\* rejected.
SpecProducerLive == SpecProducer /\ WF_vars(Respond \/ Fail)

\* C19: a call whose attempt event has been written (it passed validation)
\* leads to a console that holds exactly one completed event for its
\* transaction.
C19_AttemptLeadsToCompleted ==
  \A k \in 1..MaxTransactions :
    (k \in PassedValidation) ~> (LinesOf(CompletedMessage, GatewayId(k)) = 1)

(***************************************************************************)
(* Requests for validation: the three of the unit test 'should validate    *)
(* transaction inputs', one that passes, and requests that break two rules *)
(* at once or have no currency at all.                                     *)
(***************************************************************************)
Request(amount, customerId, currency) ==
  [amount |-> amount, currency |-> currency, customerId |-> customerId,
   paymentMethod |-> "card"]

ValidationOptions ==
  {Request(5000, "c1", "USD"), Request(-100, "c1", "USD"),
   Request(5000, "c1", "US"), Request(5000, "", "USD"),
   Request(0, "", "US"), Request(-100, "c1", "US"), Request(5000, "", "US"),
   Request(5000, "c1", ""), Request(5000, "c1", "USDX"),
   [amount |-> 5000, customerId |-> "c1", paymentMethod |-> "card"]}

BeginValidation == \E o \in ValidationOptions : StartTransaction(o)

NextValidation == Tick \/ BeginValidation \/ Respond \/ Fail

SpecValidation == InitCommon /\ [][NextValidation]_vars

\* The rejection the rules give a request, "none" if they give none.
ClaimedRejection(o) ==
  IF o.amount <= 0 THEN "Transaction amount must be positive"
  ELSE IF o.customerId = "" THEN "Customer ID is required"
  ELSE IF "currency" \notin DOMAIN o THEN "Valid currency code is required"
  ELSE IF Len(o.currency) # 3 THEN "Valid currency code is required"
  ELSE "none"

ValidationMessages ==
  {"Transaction amount must be positive", "Customer ID is required",
   "Valid currency code is required"}

\* C20: a request with amount <= 0 is rejected with 'Transaction amount must
\* be positive'; otherwise one with an empty customerId with 'Customer ID is
\* required'; otherwise one whose currency is absent or not of 3 characters
\* with 'Valid currency code is required'.  The rejected call does not reach
\* the gateway and writes no attempt, completed or success event, then or
\* later.
C20_InvalidRequestIsRejected ==
  /\ [][\A o \in ValidationOptions :
          (StartTransaction(o) /\ ClaimedRejection(o) # "none") =>
            LET k == Cardinality(DOMAIN returned)
                       + Cardinality(DOMAIN calls) + 1
            IN /\ k \in DOMAIN returned'
               /\ returned'[k] = [rejected |-> ClaimedRejection(o)]
               /\ calls' = calls
               /\ EventsIn(NewConsoleLines) = << >>
       ]_vars
  /\ [](\A k \in DOMAIN returned :
          (/\ "rejected" \in DOMAIN returned[k]
           /\ returned[k].rejected \in ValidationMessages) =>
             /\ k \notin DOMAIN calls
             /\ LinesOf(CompletedMessage, GatewayId(k)) = 0
             /\ LinesOf(SuccessDiscriminant, GatewayId(k)) = 0)
  /\ [](Cardinality(AttemptLines) =
          Cardinality(DOMAIN calls) +
          Cardinality({k \in DOMAIN returned :
                         "rejected" \in DOMAIN returned[k] =>
                           returned[k].rejected \notin ValidationMessages}))

\* C20 witness: one request rejected for its amount although its currency
\* is invalid too, one rejected for its currency; the console holds the two
\* error lines and no event.
C20_Witness ==
  /\ DOMAIN returned = {1, 2}
  /\ returned[1] = [rejected |-> "Transaction amount must be positive"]
  /\ returned[2] = [rejected |-> "Valid currency code is required"]
  /\ calls = EmptyMap
  /\ EventsIn(console) = << >>
  /\ \E i \in DOMAIN console :
       /\ console[i].message = "Starting transaction processing"
       /\ console[i].amount = -100
       /\ console[i].currency = "US"

\* C21: when the gateway call of a processTransaction call fails, the call
\* writes one line, the error 'Transaction processing failed' with the
\* error's message and the request's customerId, is rejected with that
\* error, and no completed or success event is written for it, then or
\* later.
C21_GatewayFailureIsLoggedAndRethrown ==
  /\ [][\A k \in DOMAIN calls :
          GatewayThrows(k) =>
            /\ Len(NewConsoleLines) = 1
            /\ NewConsoleLines[1].level = "error"
            /\ NewConsoleLines[1].message = "Transaction processing failed"
            /\ NewConsoleLines[1].error = "gateway error"
            /\ NewConsoleLines[1].customerId = calls[k].data.customerId
            /\ returned'[k] = [rejected |-> NewConsoleLines[1].error]
       ]_vars
  /\ [](\A k \in DOMAIN returned :
          (/\ "rejected" \in DOMAIN returned[k]
           /\ returned[k].rejected = "gateway error") =>
             /\ LinesOf(CompletedMessage, GatewayId(k)) = 0
             /\ LinesOf(SuccessDiscriminant, GatewayId(k)) = 0)

\* C21 witness: the first call's gateway request failed and the second
\* call's came back completed.
C21_Witness ==
  /\ DOMAIN returned = {1, 2}
  /\ returned[1] = [rejected |-> "gateway error"]
  /\ "result" \in DOMAIN returned[2]
  /\ returned[2].result.status = "completed"
  /\ LinesOf(CompletedMessage, "tx2") = 1
  /\ \E i \in DOMAIN console :
       /\ console[i].message = "Transaction processing failed"
       /\ console[i].error = "gateway error"

(***************************************************************************)
(* Requests with and without sendCustomerSummary, as the integration test  *)
(* 'should demonstrate sendCustomerSummary feature' and the demo script    *)
(* make them.                                                              *)
(***************************************************************************)
SummaryOptions ==
  {[amount |-> a, currency |-> "USD", customerId |-> "c1",
    paymentMethod |-> "card", sendCustomerSummary |-> flag] :
     a \in {5000, 7500}, flag \in BOOLEAN}

BeginSummary == \E o \in SummaryOptions : StartTransaction(o)

NextSummary == Tick \/ BeginSummary \/ Respond \/ Fail

SpecSummary == InitCommon /\ [][NextSummary]_vars

\* C23: a request made with sendCustomerSummary: true reaches the gateway
\* with the flag in its transaction data, and the result the call returns
\* carries a customerSummary with totalTransactions, loyaltyPoints,
\* riskScore and preferredPaymentMethod.
C23_CustomerSummaryIsForwarded ==
  /\ [](\A k \in DOMAIN calls :
          calls[k].options.sendCustomerSummary =>
            /\ "sendCustomerSummary" \in DOMAIN calls[k].data
            /\ calls[k].data.sendCustomerSummary)
  /\ [][\A k \in DOMAIN calls, st \in GatewayStatuses :
          (GatewayReturns(k, st) /\ calls[k].options.sendCustomerSummary) =>
            /\ "customerSummary" \in DOMAIN returned'[k].result
            /\ {"totalTransactions", "loyaltyPoints", "riskScore",
                "preferredPaymentMethod"}
                 \subseteq DOMAIN returned'[k].result.customerSummary
       ]_vars

(***************************************************************************)
(* Producer-to-billing claim                                               *)
(***************************************************************************)
\* C3: once the 'SIDE_EFFECT: transaction_success' line of a completed
\* transaction has been handed to processTransactionSuccess, the billing
\* record of that transaction exists for the line's customer with the
\* result's amount and processingFee, pending as long as it has not been
\* invoiced.
C3_SuccessLineIsBilled ==
  \A i \in delivered :
    LET line == console[i]
        rec == getBillingRecord(BillingState, line.transactionId)
    IN /\ line.transactionId \in DOMAIN billingRecords
       /\ rec.customerId = line.customerId
       /\ rec.amount = line.amount
       /\ rec.processingFee = line.processingFee
       /\ rec.status = "pending" \/ rec.invoiceId # NoInvoice

====
